---- MODULE Spec2Model ----
(***************************************************************************)
(* NIA voice assistant: the real-time orchestration layer.                 *)
(*   interface/voice_interface.py  VoiceInterface (session state machine)   *)
(*   core/tts_manager.py           TTSManager (phrase chunker + worker)     *)
(*   core/autonomy_agent.py        AutonomyAgent (scorer + polling worker)  *)
(*   core/confirmation_manager.py  ConfirmationManager (batch + dialogue)   *)
(*   core/stt_manager.py           STTManager (listen + transcription loop) *)
(*                                                                         *)
(* Texts are sequences: a user utterance is a sequence of words, a phrase   *)
(* handed to synthesis is a sequence of characters.  Confidences are in     *)
(* hundredths (0.3 is 30).  Durations are in milliseconds.                  *)
(***************************************************************************)
EXTENDS Integers, Sequences, FiniteSets, TLC

\* ------------------------------------------------------------------ bounds
\* trigger events (hotkey presses / wake words) over a run
MaxTriggers == 2
\* handle_hotkey_press coroutines scheduled on the loop and not yet run
MaxScheduled == 1
\* characters the phrase buffer may hold before the stream stops emitting
MaxBuffer == 1
\* phrases waiting in TTSManager.phrase_queue
MaxPhrases == 1
\* suggestions waiting in AutonomyAgent.suggestion_queue
MaxSuggestionQueue == 1
\* suggestions waiting in ConfirmationManager._pending_suggestions
MaxPending == 1
\* confirmation tasks (_batching_timer coroutines) alive at once
MaxConfirmTasks == 1
\* confirmation tasks alive at once when the manager is driven by its callers
MaxOverlap == 2
\* suggestions added within one batch window
MaxWaiting == 2
\* suggestions in the pending list when the manager is driven by its callers
MaxBatch == 4
\* characters in TTSManager.buffer before the next token, when the manager is
\* driven by its callers
MaxStreamBuffer == 3
\* phrases waiting in TTSManager.phrase_queue, when driven by its callers
MaxStreamPhrases == 2
\* characters the callers pass to add_to_buffer between two calls of stop
MaxGiven == 6
\* _transcription_loop threads still running after their listen was cancelled
MaxOrphans == 1
\* calls of update_user_input when the agent is driven by its callers alone
MaxInputs == 3
\* audio blocks waiting in STTManager.audio_queue
MaxAudioQueue == 1
\* samples kept apart in the voice-activity buffer
MaxVadBuffer == 8000

\* ------------------------------------------------------- generic helpers
Min(a, b) == IF a <= b THEN a ELSE b

Range(s) == {s[i] : i \in 1..Len(s)}

\* str.__contains__ on word sequences: kw occurs in text as a contiguous run
Contains(text, kw) ==
    \E i \in 1..(Len(text) - Len(kw) + 1) : SubSeq(text, i, i + Len(kw) - 1) = kw

\* number of positions at which kw occurs in text
Occurrences(text, kw) ==
    Cardinality({i \in 1..(Len(text) - Len(kw) + 1) : SubSeq(text, i, i + Len(kw) - 1) = kw})

\* Python's None, by type: a missing text, suggestion, phrase, task
None == "None"
NoText == [kind |-> "none", text |-> <<>>]
Text(t) == [kind |-> "text", text |-> t]
Failed == [kind |-> "error", text |-> <<>>]
NoSuggestion == [confidence |-> 0, trigger_type |-> None, topic |-> None]
NoPhrase == [text |-> <<>>, src |-> None]
NoBatch == [suggestions |-> <<>>, combined_text |-> <<>>, highest_confidence |-> 0,
            primary_trigger |-> None]

\* one word inside another: the vocabulary's words that hold a keyword as a
\* substring ("yes" in "yesterday")
InWord(k, w) ==
    \/ w = k
    \/ <<w, k>> \in { <<"yesterday", "yes">>, <<"know", "no">>, <<"homework", "work">> }

\* Python's `kw in text` on strings: a one-word keyword matches inside any word,
\* a longer keyword matches a contiguous run of words
KeywordIn(text, kw) ==
    IF Len(kw) = 1 THEN \E i \in 1..Len(text) : InWord(kw[1], text[i])
    ELSE Contains(text, kw)

\* ------------------------------------------------------------ user words
\* str.lower() on one word: the upper-case spellings of the vocabulary
LowerWord(w) ==
    CASE w = "YES"   -> "yes"
      [] w = "No"    -> "no"
      [] w = "Maybe" -> "maybe"
      [] w = "Work"  -> "work"
      [] OTHER       -> w

\* str.lower() on an utterance
Lower(text) == [i \in 1..Len(text) |-> LowerWord(text[i])]

\* ------------------------------------------------- AutonomyAgent: scorer
\* cfg "decision_keywords" (a sample of the default list, in its order)
decision_keywords == << <<"should", "i">>, <<"maybe">>, <<"i", "think">> >>
\* cfg "high_value_topics" (a sample of the default list, in its order)
high_value_topics == << <<"work">>, <<"project">>, <<"meeting">>, <<"plan">> >>
\* cfg "hesitation_patterns": the alternatives of the two regular expressions
hesitation_patterns == << {<<"um">>, <<"well">>}, {<<"i", "mean">>} >>

\* for keyword in decision_keywords: if keyword in text: decision_score += 0.3
decision_score(text) ==
    30 * Cardinality({k \in 1..Len(decision_keywords) : KeywordIn(text, decision_keywords[k])})

\* for topic_word in high_value_topics: if topic_word in text: topic_score += 0.2
topic_score(text) ==
    20 * Cardinality({k \in 1..Len(high_value_topics) : KeywordIn(text, high_value_topics[k])})

\* topic = topic_word is assigned at every match, so the last match stays
FirstTopicMutant(text) ==
    LET hits == {k \in 1..Len(high_value_topics) : KeywordIn(text, high_value_topics[k])}
    IN  IF hits = {} THEN None
        ELSE high_value_topics[CHOOSE k \in hits : \A j \in hits : k <= j][1]

topic_of(text) ==
    LET hits == {k \in 1..Len(high_value_topics) : KeywordIn(text, high_value_topics[k])}
    IN  IF hits = {} THEN None
        ELSE high_value_topics[CHOOSE k \in hits : \A j \in hits : j <= k][1]

RECURSIVE SumOccurrences(_, _)
SumOccurrences(text, alts) ==
    IF alts = {} THEN 0
    ELSE LET a == CHOOSE x \in alts : TRUE
         IN  Occurrences(text, a) + SumOccurrences(text, alts \ {a})

\* hesitation_count += len(re.findall(pattern, text)) over the patterns
hesitation_count(text) ==
    SumOccurrences(text, hesitation_patterns[1]) + SumOccurrences(text, hesitation_patterns[2])

\* len(set(recent_texts)) < len(recent_texts) over the last 3 history entries
repeated(history) ==
    /\ Len(history) >= 3
    /\ LET recent_texts == [i \in 1..3 |-> Lower(history[Len(history) - 3 + i])]
       IN  Cardinality(Range(recent_texts)) < 3

\* AutonomyAgent._analyze_context: (confidence, trigger_type, topic)
TopicFirstMutant(last_user_input, input_history, recent) ==
    LET text == Lower(last_user_input)
        d    == decision_score(text)
        t    == topic_score(text)
        h    == hesitation_count(text)
        r    == repeated(input_history)
        c1   == IF d > 0 THEN Min(d, 80) ELSE 0
        c2   == c1 + (IF t > 0 THEN Min(t, 60) ELSE 0)
        c3   == c2 + (IF h > 0 THEN Min(h * 10, 40) ELSE 0)
        c4   == c3 + (IF r THEN 30 ELSE 0)
        c5   == c4 + (IF recent THEN 20 ELSE 0)
        trig == IF t > 0 THEN "high_value_topic"
                ELSE IF d > 0 THEN "decision_keyword"
                ELSE IF h > 0 THEN "hesitation"
                ELSE IF r THEN "repetition"
                ELSE "periodic"
    IN  [confidence |-> Min(c5, 100), trigger_type |-> trig, topic |-> topic_of(text)]

UnclampedMutant(last_user_input, input_history, recent) ==
    LET text == Lower(last_user_input)
        d    == decision_score(text)
        t    == topic_score(text)
        h    == hesitation_count(text)
        r    == repeated(input_history)
        c1   == IF d > 0 THEN Min(d, 80) ELSE 0
        c2   == c1 + (IF t > 0 THEN Min(t, 60) ELSE 0)
        c3   == c2 + (IF h > 0 THEN Min(h * 10, 40) ELSE 0)
        c4   == c3 + (IF r THEN 30 ELSE 0)
        c5   == c4 + (IF recent THEN 20 ELSE 0)
        trig == IF d > 0 THEN "decision_keyword"
                ELSE IF t > 0 THEN "high_value_topic"
                ELSE IF h > 0 THEN "hesitation"
                ELSE IF r THEN "repetition"
                ELSE "periodic"
    IN  [confidence |-> c5, trigger_type |-> trig, topic |-> topic_of(text)]

analyze_context(last_user_input, input_history, recent) ==
    LET text == Lower(last_user_input)
        d    == decision_score(text)
        t    == topic_score(text)
        h    == hesitation_count(text)
        r    == repeated(input_history)
        c1   == IF d > 0 THEN Min(d, 80) ELSE 0
        c2   == c1 + (IF t > 0 THEN Min(t, 60) ELSE 0)
        c3   == c2 + (IF h > 0 THEN Min(h * 10, 40) ELSE 0)
        c4   == c3 + (IF r THEN 30 ELSE 0)
        c5   == c4 + (IF recent THEN 20 ELSE 0)
        trig == IF d > 0 THEN "decision_keyword"
                ELSE IF t > 0 THEN "high_value_topic"
                ELSE IF h > 0 THEN "hesitation"
                ELSE IF r THEN "repetition"
                ELSE "periodic"
    IN  [confidence |-> Min(c5, 100), trigger_type |-> trig, topic |-> topic_of(text)]

\* AutonomyAgent._generate_context_aware_suggestion: a suggestion or None
PeriodicPassesMutant(last_user_input, input_history, recent, threshold) ==
    LET a == analyze_context(last_user_input, input_history, recent)
    IN  IF last_user_input = <<>> THEN NoSuggestion
        ELSE IF a.confidence < threshold THEN NoSuggestion
        ELSE a

generate_context_aware_suggestion(last_user_input, input_history, recent, threshold) ==
    LET a == analyze_context(last_user_input, input_history, recent)
    IN  IF last_user_input = <<>> THEN NoSuggestion
        ELSE IF a.confidence < threshold THEN NoSuggestion
        ELSE IF a.trigger_type = "periodic" THEN NoSuggestion
        ELSE a

\* ------------------------------------------------- TTSManager: chunker
\* characters of a response: a letter, a sentence end, a blank, a symbol that
\* _clean_text_for_speech removes (an emoji)
Chars == {"a", ".", " ", "#"}

\* settings["voice"]["chunk_chars_min"]
chunk_chars_min == 1

RECURSIVE LStrip(_)
LStrip(s) == IF s # <<>> /\ Head(s) = " " THEN LStrip(Tail(s)) ELSE s

RECURSIVE RStrip(_)
RStrip(s) == IF s # <<>> /\ s[Len(s)] = " " THEN RStrip(SubSeq(s, 1, Len(s) - 1)) ELSE s

\* str.strip()
Strip(s) == RStrip(LStrip(s))

RECURSIVE Collapse(_)
Collapse(s) ==
    IF Len(s) < 2 THEN s
    ELSE IF s[1] = " " /\ s[2] = " " THEN Collapse(Tail(s))
    ELSE <<s[1]>> \o Collapse(Tail(s))

\* TTSManager._clean_text_for_speech: symbols removed, blanks collapsed, stripped
clean_text_for_speech(text) ==
    Strip(Collapse(SelectSeq(text, LAMBDA c : c # "#")))

\* TTSManager.speak on a queue: the cleaned phrase is put unless it is empty
speak(queue, phrase, src) ==
    LET cleaned_phrase == clean_text_for_speech(phrase)
    IN  IF cleaned_phrase # <<>>
        THEN Append(queue, [text |-> cleaned_phrase, src |-> src])
        ELSE queue

\* boundary_regex.search(buffer): the end of the first sentence end, 0 if none
boundary_end(buf) ==
    LET hits == {i \in 1..Len(buf) : buf[i] = "."}
    IN  IF hits = {} THEN 0 ELSE CHOOSE i \in hits : \A j \in hits : i <= j

\* the while loop of add_to_buffer over (buffer, phrase_queue)
RECURSIVE chunk_loop(_, _)
chunk_loop(buf, queue) ==
    LET e      == boundary_end(buf)
        phrase == SubSeq(buf, 1, e)
    IN  IF e = 0 THEN [buffer |-> buf, queue |-> queue]
        ELSE IF Len(Strip(phrase)) <= chunk_chars_min THEN [buffer |-> buf, queue |-> queue]
        ELSE chunk_loop(SubSeq(buf, e + 1, Len(buf)), speak(queue, Strip(phrase), "turn"))

\* TTSManager.add_to_buffer
BufferReplacedMutant(buf, queue, text) == chunk_loop(text, queue)

add_to_buffer(buf, queue, text) == chunk_loop(buf \o text, queue)

\* TTSManager.flush_buffer
FlushSkippedMutant(buf, queue) == [buffer |-> buf, queue |-> queue]

flush_buffer(buf, queue) ==
    IF Strip(buf) # <<>>
    THEN [buffer |-> <<>>, queue |-> speak(queue, Strip(buf), "turn")]
    ELSE [buffer |-> buf, queue |-> queue]

\* TTSManager.stop: the queue and the buffer are cleared
StopKeepsBufferMutant(buf, queue) == [buffer |-> buf, queue |-> <<>>]

stop(buf, queue) == [buffer |-> <<>>, queue |-> <<>>]

\* ---------------------------------------------------------------- state
VARIABLES
    \* VoiceInterface
    state,                 \* VoiceInterface.state
    scheduled,             \* handle_hotkey_press coroutines scheduled on the loop
    posted,                \* trigger events so far
    turns,                 \* listen_and_respond coroutines in flight
    turnPc,                \* where the turn in flight is suspended
    current_brain_task,    \* VoiceInterface.current_brain_task
    barge_in,              \* a barge-in handler has run during the turn in flight
    ignored,               \* presses logged as ignored ("already listening")
    \* TTSManager
    buffer,                \* TTSManager.buffer
    phrase_queue,          \* TTSManager.phrase_queue
    speaking,              \* the phrase the worker thread is speaking, or None
    speak_complete_event,  \* TTSManager.speak_complete_event
    set_posted,            \* speak_complete_event.set handed to call_soon_threadsafe
    given,                \* history: what the callers passed to add_to_buffer since stop
    queued,                \* history: what their calls put on the queue since stop
    \* AutonomyAgent
    paused_event,          \* AutonomyAgent._paused_event
    suggestion_queue,      \* AutonomyAgent.suggestion_queue
    autoPc,                \* where the worker thread is in _run_loop
    last_user_input,       \* AutonomyAgent._last_user_input
    input_history,         \* AutonomyAgent._input_history
    confidence_threshold,  \* AutonomyAgent.confidence_threshold
    autonomy_stop_event,   \* AutonomyAgent._stop_event
    last_emit,             \* local last_emit of _run_loop: 0 as initialised, 1 once a
                           \* tick has stored its now in it
    \* VoiceInterface._consume_autonomy_suggestions
    consPc,                \* where the consumer task is suspended
    consItem,              \* the suggestion get_next_suggestion_async returned
    \* ConfirmationManager
    pending_suggestions,   \* ConfirmationManager._pending_suggestions
    batching_task,         \* ConfirmationManager._batching_task
    ctask,                 \* the _batching_timer tasks, by slot
    \* STTManager
    is_listening,          \* STTManager.is_listening
    stop_event,            \* STTManager._stop_event
    listen,                \* listen_and_transcribe invocations, by owner
    orphans,               \* _transcription_loop threads whose invocation is gone
    fg_listens,            \* listen_and_transcribe invocations of turns, in progress
    last_round,            \* response and decision of the last _present_confirmation
    last_activity_time,    \* time.time() - ConfirmationManager._last_activity_time, in
                           \* seconds, kept up to the second after the idle detection time
    \* STTManager._transcription_loop of the foreground listen
    use_vad,               \* STTManager.use_vad
    vad_enabled,           \* _SileroVADProvider._enabled of STTManager.vad_provider
    vad_trigger_ms,        \* STTManager.vad_trigger_ms
    vad_buffer,            \* samples in STTManager.vad_buffer
    recognizer,            \* STTManager.recognizer: fed since its last FinalResult, or reset
    audio_queue,           \* blocks in STTManager.audio_queue
    phase,                 \* get timeouts elapsed since the stream delivered a block
    loopPc,                \* where the thread is: none, running, final, done
    in_speech,             \* local in_speech
    speech_ms,             \* local speech_ms
    silence_ms,            \* local silence_ms
    last_audio_time,       \* local last_audio_time
    since_start            \* time.time() - start_time in ms, kept up to the limit

sessionVars == <<state, scheduled, posted, turns, turnPc, current_brain_task, barge_in,
                 ignored>>
ttsVars     == <<buffer, phrase_queue, speaking, speak_complete_event, set_posted,
                 given, queued>>
agentVars   == <<paused_event, suggestion_queue, autoPc, last_user_input, input_history,
                 confidence_threshold, autonomy_stop_event, last_emit>>
consVars    == <<consPc, consItem>>
confirmVars == <<pending_suggestions, batching_task, ctask, last_round,
                 last_activity_time>>
sttVars     == <<is_listening, stop_event, listen, orphans, fg_listens>>
loopLocals  == <<in_speech, speech_ms, silence_ms, last_audio_time, since_start>>
loopVars    == <<use_vad, vad_enabled, vad_trigger_ms, vad_buffer, recognizer,
                 audio_queue, phase, loopPc, loopLocals>>

VoiceState == {"Idle", "Listening", "Thinking", "Speaking"}

\* the foreground turn is owner 0 of a listen; confirmation task i is owner i
Foreground == 0
ConfirmSlots == 1..(IF MaxConfirmTasks > MaxOverlap THEN MaxConfirmTasks ELSE MaxOverlap)
Owners == {Foreground} \cup ConfirmSlots

\* what the recognizer may return to a foreground listen
FgUtterances == { <<>>, <<"Maybe", "work">> }
\* what the recognizer may return to a confirmation listen
Responses == { <<>>, <<"YES">>, <<"no">>, <<"hello">>, <<"no", "please">> }

NoListen == [st |-> "none", res |-> NoText]
NoTask   == [pc |-> "free", cancel |-> FALSE, batch |-> NoBatch, response |-> NoText,
             cleared |-> FALSE]
\* the slots the event loop runs tasks in: the first n of them
TaskSlots(n) == [i \in ConfirmSlots |-> IF i <= n THEN NoTask
                                        ELSE [NoTask EXCEPT !.pc = "unused"]]
NoRound  == [returned |-> FALSE, response |-> NoText, confirmed |-> FALSE]

\* tokens of a generation stream
Tokens == { <<"a">>, <<"a", ".">> }

\* ------------------------------------------- ConfirmationManager: helpers
yes_words == { <<"yes">>, <<"sure">>, <<"okay">>, <<"go", "ahead">>, <<"please">>,
               <<"sounds", "good">> }
no_words  == { <<"no">>, <<"not", "now">>, <<"later">>, <<"skip">>, <<"dismiss">> }

\* the decision of _present_confirmation on the response of the listen
\* (None: timed out or failed)
YesOnUnmatchedMutant(response) ==
    IF response.kind # "text" \/ response.text = <<>> THEN FALSE
    ELSE IF \E w \in yes_words : KeywordIn(Lower(response.text), w) THEN TRUE
    ELSE IF \E w \in no_words : KeywordIn(Lower(response.text), w) THEN FALSE
    ELSE TRUE

confirmed_by(response) ==
    IF response.kind # "text" \/ response.text = <<>> THEN FALSE
    ELSE IF \E w \in yes_words : KeywordIn(Lower(response.text), w) THEN TRUE
    ELSE IF \E w \in no_words : KeywordIn(Lower(response.text), w) THEN FALSE
    ELSE FALSE

\* sorted(..., key=confidence, reverse=True): stable insertion
RECURSIVE InsertDesc(_, _)
InsertDesc(sorted, x) ==
    IF sorted = <<>> THEN <<x>>
    ELSE IF Head(sorted).confidence >= x.confidence
         THEN <<Head(sorted)>> \o InsertDesc(Tail(sorted), x)
         ELSE <<x>> \o sorted

RECURSIVE SortDesc(_)
SortDesc(s) ==
    IF s = <<>> THEN <<>>
    ELSE InsertDesc(SortDesc(SubSeq(s, 1, Len(s) - 1)), s[Len(s)])

\* the fallback template of _generate_suggestion_for_context, by trigger
suggestion_text(s) ==
    CASE s.trigger_type = "decision_keyword" -> <<"d">>
      [] s.trigger_type = "high_value_topic" /\ s.topic # None -> <<"t">>
      [] s.trigger_type = "hesitation"       -> <<"h">>
      [] s.trigger_type = "repetition"       -> <<"r">>
      [] OTHER                               -> <<"x">>

\* ConfirmationManager._create_batched_suggestion on a non-empty pending list
FirstThreeMutant(pending) ==
    LET top_suggestions == SubSeq(pending, 1, Min(3, Len(pending)))
        texts           == [i \in 1..Len(top_suggestions) |-> suggestion_text(top_suggestions[i])]
    IN  [suggestions        |-> top_suggestions,
         combined_text      |-> IF Len(texts) = 1 THEN texts[1]
                                ELSE IF Len(texts) = 2 THEN texts[1] \o <<" ">> \o texts[2]
                                ELSE texts[1] \o <<" ">> \o texts[2] \o <<" ">> \o texts[3],
         highest_confidence |-> top_suggestions[1].confidence,
         primary_trigger    |-> top_suggestions[1].trigger_type]

create_batched_suggestion(pending) ==
    LET sorted_suggestions == SortDesc(pending)
        top_suggestions    == SubSeq(sorted_suggestions, 1, Min(3, Len(sorted_suggestions)))
        texts              == [i \in 1..Len(top_suggestions) |-> suggestion_text(top_suggestions[i])]
    IN  [suggestions        |-> top_suggestions,
         combined_text      |-> IF Len(texts) = 1 THEN texts[1]
                                ELSE IF Len(texts) = 2 THEN texts[1] \o <<" ">> \o texts[2]
                                ELSE texts[1] \o <<" ">> \o texts[2] \o <<" ">> \o texts[3],
         highest_confidence |-> top_suggestions[1].confidence,
         primary_trigger    |-> top_suggestions[1].trigger_type]

\* ConfirmationManager._generate_confirmation_prompt: one literal per branch
generate_confirmation_prompt(batched) ==
    CASE batched.primary_trigger = "decision_keyword" -> <<"D", "?">>
      [] batched.primary_trigger = "high_value_topic" -> <<"T", "?">>
      [] batched.primary_trigger = "hesitation"       -> <<"H", "?">>
      [] batched.primary_trigger = "repetition"       -> <<"R", "?">>
      [] OTHER -> IF batched.highest_confidence > 80 THEN <<"S", "?">> ELSE <<"X", "?">>

\* ----------------------------------------------------------------- Init
\* the objects after construction, but for the two configured values
\* ConfirmationManager._idle_detection_time, in seconds
idle_detection_time == 3

Constructed ==
    /\ state = "Idle"
    /\ scheduled = 0
    /\ posted = 0
    /\ turns = 0
    /\ turnPc = "none"
    /\ current_brain_task = None
    /\ barge_in = FALSE
    /\ ignored = 0
    /\ buffer = <<>>
    /\ phrase_queue = <<>>
    /\ speaking = NoPhrase
    /\ speak_complete_event = FALSE
    /\ set_posted = FALSE
    /\ given = <<>>
    /\ queued = <<>>
    /\ paused_event = TRUE
    /\ suggestion_queue = <<>>
    /\ autoPc = "sleep"
    /\ autonomy_stop_event = FALSE
    /\ last_emit = 0
    /\ last_user_input = <<>>
    /\ input_history = <<>>
    /\ consPc = "sleep"
    /\ consItem = NoSuggestion
    /\ pending_suggestions = <<>>
    /\ batching_task = 0
    /\ is_listening = FALSE
    /\ stop_event = FALSE
    /\ listen = [o \in Owners |-> NoListen]
    /\ orphans = 0
    /\ fg_listens = 0
    /\ last_round = NoRound
    /\ last_activity_time = idle_detection_time + 1
    /\ vad_buffer = 0
    /\ recognizer = "reset"
    /\ audio_queue = 0
    /\ phase = 0
    /\ loopPc = "none"
    /\ in_speech = FALSE
    /\ speech_ms = 0
    /\ silence_ms = 0
    /\ last_audio_time = 0
    /\ since_start = 0


\* cfg "confidence_threshold" (default 0.6), in hundredths
default_confidence_threshold == 60

\* cfg "vad_trigger_ms" (default 250)
default_vad_trigger_ms == 250
\* trigger lengths a configuration may set: the default, and one longer than a block
TriggerSettings == {default_vad_trigger_ms, 600}

\* the default configuration: threshold 0.6, no voice-activity gate
Init ==
    /\ Constructed
    /\ ctask = TaskSlots(MaxConfirmTasks)
    /\ confidence_threshold = default_confidence_threshold
    /\ use_vad = FALSE
    /\ vad_enabled = FALSE
    /\ vad_trigger_ms = default_vad_trigger_ms

\* thresholds a configuration may set
Thresholds == {0, 20, default_confidence_threshold, 100}

\* the agent under any configured threshold
InitAgent ==
    /\ Constructed
    /\ ctask = TaskSlots(MaxConfirmTasks)
    /\ confidence_threshold \in Thresholds
    /\ use_vad = FALSE
    /\ vad_enabled = FALSE
    /\ vad_trigger_ms = default_vad_trigger_ms

\* the transcriber with the voice-activity gate configured or not
InitSTT ==
    /\ Constructed
    /\ ctask = TaskSlots(MaxConfirmTasks)
    /\ confidence_threshold = default_confidence_threshold
    /\ use_vad \in BOOLEAN
    /\ vad_enabled = use_vad
    /\ vad_trigger_ms \in (IF use_vad THEN TriggerSettings ELSE {default_vad_trigger_ms})

\* ------------------------------------------------- shared action fragments
\* ConfirmationManager.clear_pending
\* (cleared records, for every task alive at the call, that the call was made)
ClearPendingKeepsTimerMutant ==
    /\ pending_suggestions' = <<>>
    /\ ctask' = [i \in ConfirmSlots |->
                   IF ctask[i].pc \in {"free", "unused"} THEN ctask[i]
                   ELSE [ctask[i] EXCEPT !.cleared = TRUE]]
    /\ batching_task' = 0

clear_pending ==
    /\ pending_suggestions' = <<>>
    /\ ctask' = [i \in ConfirmSlots |->
                   IF ctask[i].pc \in {"free", "unused"} THEN ctask[i]
                   ELSE [ctask[i] EXCEPT !.cleared = TRUE,
                                         !.cancel = (@ \/ i = batching_task)]]
    /\ batching_task' = 0

\* ConfirmationManager.update_activity
update_activity == last_activity_time' = 0

\* ConfirmationManager.is_idle
AlwaysIdleMutant == TRUE

IdleOnlyLaterMutant == last_activity_time > idle_detection_time

is_idle == last_activity_time >= idle_detection_time

\* AutonomyAgent.pause
pause == paused_event' = TRUE

\* AutonomyAgent.resume
ResumeLeavesPausedMutant == paused_event' = paused_event

resume == paused_event' = FALSE

\* STTManager.listen_and_transcribe up to its await: the flags are set and a
\* _transcription_loop thread is started for the new future (the thread of a
\* turn's listen starts with fresh locals)
start_listen(o) ==
    /\ is_listening' = TRUE
    /\ stop_event' = FALSE
    /\ listen' = [listen EXCEPT ![o] = [st |-> "running", res |-> NoText]]
    /\ IF o = Foreground
       THEN /\ fg_listens' = fg_listens + 1
            /\ loopPc' = "running"
            /\ in_speech' = FALSE
            /\ speech_ms' = 0
            /\ silence_ms' = 0
            /\ last_audio_time' = 0
            /\ since_start' = 0
       ELSE UNCHANGED <<fg_listens, loopPc, loopLocals>>
    /\ UNCHANGED <<use_vad, vad_enabled, vad_trigger_ms, vad_buffer, recognizer,
                   audio_queue, phase>>

\* future.set_result / future.set_exception reach the awaiting listen
set_result(o, res) ==
    listen' = [listen EXCEPT ![o] = [st |-> "done", res |-> res]]

\* AutonomyAgent.update_user_input (texts arrive stripped and non-empty)
update_user_input(text) ==
    /\ last_user_input' = text
    /\ input_history' = LET h == Append(input_history, text)
                        IN  IF Len(h) > 10 THEN SubSeq(h, Len(h) - 9, Len(h)) ELSE h

\* --------------------------------------------------------- VoiceInterface
\* _hotkey_listener / _on_wake_detected: a trigger event schedules the handler
PostTrigger ==
    /\ posted < MaxTriggers
    /\ scheduled < MaxScheduled
    /\ posted' = posted + 1
    /\ scheduled' = scheduled + 1
    /\ UNCHANGED <<state, turns, turnPc, current_brain_task, barge_in, ignored>>
    /\ UNCHANGED <<ttsVars, agentVars, consVars, confirmVars, sttVars, loopVars>>

\* handle_hotkey_press, state SPEAKING or THINKING: barge-in
BargeInNoCancelMutant ==
    /\ LET stopped == stop(buffer, phrase_queue)
       IN  /\ buffer' = stopped.buffer
           /\ phrase_queue' = stopped.queue
    /\ current_brain_task' = current_brain_task
    /\ clear_pending
    /\ barge_in' = TRUE
    /\ UNCHANGED <<state, turns, turnPc, ignored, last_round, last_activity_time>>
    /\ UNCHANGED <<speaking, speak_complete_event, set_posted, given, queued>>
    /\ UNCHANGED <<agentVars, sttVars, loopVars>>

BargeInToListeningMutant ==
    /\ LET stopped == stop(buffer, phrase_queue)
       IN  /\ buffer' = stopped.buffer
           /\ phrase_queue' = stopped.queue
    /\ current_brain_task' = IF current_brain_task = "pending" THEN "must_cancel"
                             ELSE current_brain_task
    /\ clear_pending
    /\ barge_in' = TRUE
    /\ state' = "Listening"
    /\ UNCHANGED <<turns, turnPc, ignored, last_round, last_activity_time>>
    /\ UNCHANGED <<speaking, speak_complete_event, set_posted, given, queued>>
    /\ UNCHANGED <<agentVars, sttVars, loopVars>>

BargeIn ==
    /\ LET stopped == stop(buffer, phrase_queue)
       IN  /\ buffer' = stopped.buffer
           /\ phrase_queue' = stopped.queue
    /\ current_brain_task' = IF current_brain_task = "pending" THEN "must_cancel"
                             ELSE current_brain_task
    /\ clear_pending
    /\ barge_in' = TRUE
    /\ UNCHANGED <<state, turns, turnPc, ignored, last_round, last_activity_time>>
    /\ UNCHANGED <<speaking, speak_complete_event, set_posted, given, queued>>
    /\ UNCHANGED <<agentVars, sttVars, loopVars>>

\* handle_hotkey_press, state IDLE: pause, clear_pending, listen_and_respond up
\* to the await of the transcript
StartTurn ==
    /\ pause
    /\ clear_pending
    /\ state' = "Listening"
    /\ turns' = turns + 1
    /\ turnPc' = "recognize"
    /\ start_listen(Foreground)
    /\ UNCHANGED <<current_brain_task, barge_in, ignored, orphans, last_round, last_activity_time>>
    /\ UNCHANGED <<suggestion_queue, autoPc, last_user_input, input_history,
                   confidence_threshold, autonomy_stop_event, last_emit>>
    /\ UNCHANGED ttsVars

\* handle_hotkey_press, state LISTENING: the press is ignored
ListenAgainMutant == StartTurn

IgnoreWhileListening ==
    /\ ignored' = ignored + 1
    /\ UNCHANGED <<state, turns, turnPc, current_brain_task, barge_in>>
    /\ UNCHANGED <<ttsVars, agentVars, confirmVars, sttVars, loopVars>>

\* VoiceInterface.handle_hotkey_press, run by the loop
handle_hotkey_press ==
    /\ scheduled > 0
    /\ scheduled' = scheduled - 1
    /\ UNCHANGED <<posted, consVars>>
    /\ IF state \in {"Speaking", "Thinking"} THEN BargeIn
       ELSE IF state = "Idle" THEN StartTurn
       ELSE IgnoreWhileListening

\* _transcription_loop of a listen that is still awaited leaves its while loop
\* (end of utterance, either timeout, the stop flag, an exception) and hands
\* its transcript or its exception to the future
loop_exit(o) ==
    /\ listen[o].st = "running"
    /\ \E res \in {Text(t) : t \in (IF o = Foreground THEN FgUtterances ELSE Responses)}
                     \cup {Failed} :
           set_result(o, res)
    /\ loopPc' = IF o = Foreground THEN "done" ELSE loopPc
    /\ UNCHANGED <<is_listening, stop_event, orphans, fg_listens>>
    /\ UNCHANGED <<use_vad, vad_enabled, vad_trigger_ms, vad_buffer, recognizer,
                   audio_queue, phase, loopLocals>>
    /\ UNCHANGED <<sessionVars, ttsVars, agentVars, consVars, confirmVars>>

\* a _transcription_loop whose listen was cancelled ends: its future is done,
\* so its transcript is handed to nobody
orphan_ends ==
    /\ orphans > 0
    /\ orphans' = orphans - 1
    /\ UNCHANGED <<is_listening, stop_event, listen, fg_listens>>
    /\ UNCHANGED <<sessionVars, ttsVars, agentVars, consVars, confirmVars, loopVars>>

\* ... because it finds the stop flag set at the head of its while loop
orphan_sees_stop == stop_event /\ orphan_ends

\* ... because no block is queued while is_listening is false: 5 s of queue.Empty
orphan_times_out == ~stop_event /\ ~is_listening /\ orphan_ends

\* ... because of the audio it reads: end of utterance, a timeout, an exception
orphan_breaks == ~stop_event /\ is_listening /\ orphan_ends

orphan_exit ==
    \/ orphan_sees_stop
    \/ orphan_times_out
    \/ orphan_breaks

\* listen_and_respond resumes with the result of _recognize_speech
listen_and_respond_recognized ==
    /\ turnPc = "recognize"
    /\ listen[Foreground].st = "done"
    /\ listen' = [listen EXCEPT ![Foreground] = NoListen]
    /\ is_listening' = FALSE
    /\ fg_listens' = fg_listens - 1
    /\ LET res       == listen[Foreground].res
           user_text == IF res.kind = "text" THEN res.text ELSE <<>>
       IN  IF user_text = <<>>
           THEN /\ state' = "Idle"
                /\ resume
                /\ turns' = turns - 1
                /\ turnPc' = "none"
                /\ UNCHANGED <<current_brain_task, last_user_input, input_history,
                               last_activity_time>>
           ELSE /\ update_user_input(user_text)
                /\ update_activity
                /\ state' = "Thinking"
                /\ current_brain_task' = "pending"
                /\ turnPc' = "brain"
                /\ UNCHANGED <<turns, paused_event>>
    /\ UNCHANGED <<scheduled, posted, barge_in, ignored, stop_event, orphans>>
    /\ UNCHANGED <<suggestion_queue, autoPc, confidence_threshold, autonomy_stop_event, last_emit>>
    /\ UNCHANGED <<pending_suggestions, batching_task, ctask, last_round>>
    /\ UNCHANGED <<ttsVars, consVars, loopVars>>

\* the apology of _stream_brain_to_tts's except branch, which no chunk of
\* Brain.generate_stream reaches: the generator catches every exception of the
\* provider chain and yields the terminal error event instead
apology == <<"s", "o", "r", "r", "y", ".">>

\* _stream_brain_to_tts receives one chunk of Brain.generate_stream:
\* a token, the final chunk {"response": "", "done": True}, or the terminal
\* error event {"error": ..., "done": True} (as the end of the stream: no
\* "response" key, the loop is left and the buffer flushed)
stream_brain_to_tts ==
    /\ turnPc = "brain"
    /\ current_brain_task = "pending"
    /\ \/ \E token \in Tokens :
            /\ Len(buffer) < MaxBuffer
            /\ Len(phrase_queue) < MaxPhrases
            /\ state' = "Speaking"
            /\ LET added == add_to_buffer(buffer, phrase_queue, token)
               IN  /\ buffer' = added.buffer
                   /\ phrase_queue' = added.queue
            /\ UNCHANGED current_brain_task
       \/ /\ Len(phrase_queue) < MaxPhrases
          /\ state' = "Speaking"
          /\ LET added   == add_to_buffer(buffer, phrase_queue, <<>>)
                 flushed == flush_buffer(added.buffer, added.queue)
             IN  /\ buffer' = flushed.buffer
                 /\ phrase_queue' = flushed.queue
          /\ current_brain_task' = "finished"
       \/ /\ Len(phrase_queue) < MaxPhrases
          /\ LET flushed == flush_buffer(buffer, phrase_queue)
             IN  /\ buffer' = flushed.buffer
                 /\ phrase_queue' = flushed.queue
          /\ current_brain_task' = "finished"
          /\ UNCHANGED state
    /\ UNCHANGED <<scheduled, posted, turns, turnPc, barge_in, ignored>>
    /\ UNCHANGED <<speaking, speak_complete_event, set_posted, given, queued>>
    /\ UNCHANGED <<agentVars, consVars, confirmVars, sttVars, loopVars>>

\* the cancelled brain task is resumed: CancelledError leaves _stream_brain_to_tts
\* past its except Exception and past flush_buffer
brain_task_cancelled ==
    /\ current_brain_task = "must_cancel"
    /\ current_brain_task' = "cancelled"
    /\ UNCHANGED <<state, scheduled, posted, turns, turnPc, barge_in, ignored>>
    /\ UNCHANGED <<ttsVars, agentVars, consVars, confirmVars, sttVars, loopVars>>

\* listen_and_respond resumes after await self.current_brain_task
listen_and_respond_finish ==
    /\ turnPc = "brain"
    /\ current_brain_task \in {"finished", "cancelled"}
    /\ state' = "Idle"
    /\ resume
    /\ turns' = turns - 1
    /\ turnPc' = "none"
    /\ barge_in' = FALSE
    /\ UNCHANGED <<scheduled, posted, current_brain_task, ignored>>
    /\ UNCHANGED <<suggestion_queue, autoPc, last_user_input, input_history,
                   confidence_threshold, autonomy_stop_event, last_emit>>
    /\ UNCHANGED <<ttsVars, consVars, confirmVars, sttVars, loopVars>>

\* -------------------------------------------------- TTSManager: worker
\* _tts_worker takes the next phrase and starts tts_speak
WorkerTakesLastMutant ==
    /\ speaking = NoPhrase
    /\ phrase_queue # <<>>
    /\ speaking' = phrase_queue[Len(phrase_queue)]
    /\ phrase_queue' = SubSeq(phrase_queue, 1, Len(phrase_queue) - 1)
    /\ UNCHANGED <<buffer, speak_complete_event, set_posted, given, queued>>
    /\ UNCHANGED <<sessionVars, agentVars, consVars, confirmVars, sttVars, loopVars>>

tts_worker_get ==
    /\ speaking = NoPhrase
    /\ phrase_queue # <<>>
    /\ speaking' = Head(phrase_queue)
    /\ phrase_queue' = Tail(phrase_queue)
    /\ UNCHANGED <<buffer, speak_complete_event, set_posted, given, queued>>
    /\ UNCHANGED <<sessionVars, agentVars, consVars, confirmVars, sttVars, loopVars>>

\* tts_speak returns; if the queue is empty the completion is signalled
tts_worker_spoken ==
    /\ speaking # NoPhrase
    /\ speaking' = NoPhrase
    /\ set_posted' = IF phrase_queue = <<>> THEN TRUE ELSE set_posted
    /\ UNCHANGED <<buffer, phrase_queue, speak_complete_event, given, queued>>
    /\ UNCHANGED <<sessionVars, agentVars, consVars, confirmVars, sttVars, loopVars>>

\* phrase_queue.get times out (queue.Empty): the completion is signalled
tts_worker_timeout ==
    /\ speaking = NoPhrase
    /\ phrase_queue = <<>>
    /\ set_posted' = TRUE
    /\ UNCHANGED <<buffer, phrase_queue, speaking, speak_complete_event, given, queued>>
    /\ UNCHANGED <<sessionVars, agentVars, consVars, confirmVars, sttVars, loopVars>>

\* speak_complete_event.set runs on the loop and wakes every waiter
event_set ==
    /\ set_posted
    /\ set_posted' = FALSE
    /\ speak_complete_event' = TRUE
    /\ ctask' = [i \in ConfirmSlots |->
                   IF ctask[i].pc = "prompt_wait" THEN [ctask[i] EXCEPT !.pc = "prompt_ready"]
                   ELSE IF ctask[i].pc = "content_wait" THEN [ctask[i] EXCEPT !.pc = "content_ready"]
                   ELSE ctask[i]]
    /\ UNCHANGED <<given, queued, buffer, phrase_queue, speaking, pending_suggestions, batching_task,
                   last_round, last_activity_time>>
    /\ UNCHANGED <<sessionVars, agentVars, consVars, sttVars, loopVars>>

\* ------------------------------------------------ AutonomyAgent: worker
\* _run_loop wakes from time.sleep(0.2) and reads the paused flag; when it is set,
\* continue leads to the while test, which reads the stop flag
ContinueSkipsStopMutant ==
    /\ autoPc = "sleep"
    /\ autoPc' = IF paused_event THEN "sleep" ELSE "tick"
    /\ UNCHANGED <<paused_event, suggestion_queue, last_user_input, input_history,
                   confidence_threshold, autonomy_stop_event, last_emit>>
    /\ UNCHANGED <<sessionVars, ttsVars, consVars, confirmVars, sttVars, loopVars>>

run_loop_check ==
    /\ autoPc = "sleep"
    /\ autoPc' = IF ~paused_event THEN "tick"
                 ELSE IF autonomy_stop_event THEN "exited" ELSE "sleep"
    /\ UNCHANGED <<paused_event, suggestion_queue, last_user_input, input_history,
                   confidence_threshold, autonomy_stop_event, last_emit>>
    /\ UNCHANGED <<sessionVars, ttsVars, consVars, confirmVars, sttVars, loopVars>>

\* the rest of the tick: the interval test (now - 0.0 is above any interval;
\* since a stored now the interval has passed or not), the scorer, the put,
\* last_emit = now, and the while test that follows
run_loop_tick ==
    /\ autoPc = "tick"
    /\ autoPc' = IF autonomy_stop_event THEN "exited" ELSE "sleep"
    /\ \E passed \in BOOLEAN, recent \in BOOLEAN :
          LET elapsed    == last_emit = 0 \/ passed
              suggestion == generate_context_aware_suggestion(
                                last_user_input, input_history, recent, confidence_threshold)
          IN  /\ IF elapsed /\ suggestion # NoSuggestion
                 THEN /\ Len(suggestion_queue) < MaxSuggestionQueue
                      /\ suggestion_queue' = Append(suggestion_queue, suggestion)
                 ELSE UNCHANGED suggestion_queue
              /\ last_emit' = IF elapsed THEN 1 ELSE last_emit
    /\ UNCHANGED <<paused_event, last_user_input, input_history, confidence_threshold,
                   autonomy_stop_event>>
    /\ UNCHANGED <<sessionVars, ttsVars, consVars, confirmVars, sttVars, loopVars>>

\* ------------------------------ VoiceInterface._consume_autonomy_suggestions
\* the consumer wakes from asyncio.sleep(0.1) and tests the state
consume_wake ==
    /\ consPc = "sleep"
    /\ consPc' = IF state # "Idle" THEN "sleep" ELSE "get"
    /\ UNCHANGED consItem
    /\ UNCHANGED <<sessionVars, ttsVars, agentVars, confirmVars, sttVars, loopVars>>

\* AutonomyAgent.get_next_suggestion_async: _get_next_blocking in the executor
\* returns a suggestion, or None after the timeout
get_next_suggestion_async ==
    IF suggestion_queue # <<>>
    THEN /\ consItem' = Head(suggestion_queue)
         /\ suggestion_queue' = Tail(suggestion_queue)
    ELSE /\ consItem' = NoSuggestion
         /\ UNCHANGED suggestion_queue

\* the consumer awaits the next suggestion
consume_get ==
    /\ consPc = "get"
    /\ get_next_suggestion_async
    /\ consPc' = IF suggestion_queue # <<>> THEN "got" ELSE "sleep"
    /\ UNCHANGED <<paused_event, autoPc, last_user_input, input_history, confidence_threshold, autonomy_stop_event, last_emit>>
    /\ UNCHANGED <<sessionVars, ttsVars, confirmVars, sttVars, loopVars>>
\* the lowest free task slot
FreeSlot == CHOOSE i \in ConfirmSlots :
                ctask[i].pc = "free" /\ \A j \in ConfirmSlots : ctask[j].pc = "free" => i <= j

\* ConfirmationManager.add_suggestion
TimerOnlyOnceMutant(s) ==
    /\ pending_suggestions' = Append(pending_suggestions, s)
    /\ IF pending_suggestions = <<>> /\ batching_task = 0
       THEN /\ \E i \in ConfirmSlots : ctask[i].pc = "free"
            /\ ctask' = [ctask EXCEPT ![FreeSlot] = [NoTask EXCEPT !.pc = "sleep"]]
            /\ batching_task' = FreeSlot
       ELSE UNCHANGED <<ctask, batching_task>>
    /\ UNCHANGED <<last_round, last_activity_time>>

add_suggestion(s) ==
    /\ pending_suggestions' = Append(pending_suggestions, s)
    /\ IF pending_suggestions = <<>>
       THEN /\ \E i \in ConfirmSlots : ctask[i].pc = "free"
            /\ ctask' = [ctask EXCEPT ![FreeSlot] = [NoTask EXCEPT !.pc = "sleep"]]
            /\ batching_task' = FreeSlot
       ELSE UNCHANGED <<ctask, batching_task>>
    /\ UNCHANGED <<last_round, last_activity_time>>

\* the consumer resumes with the suggestion and tests the state again
consume_got ==
    /\ consPc = "got"
    /\ consPc' = "sleep"
    /\ consItem' = NoSuggestion
    /\ IF state = "Idle"
       THEN /\ Len(pending_suggestions) < MaxPending
            /\ add_suggestion(consItem)
       ELSE UNCHANGED confirmVars
    /\ UNCHANGED <<sessionVars, ttsVars, agentVars, sttVars, loopVars>>

\* ------------------------------------------- ConfirmationManager: tasks
\* what the language model may render for a confirmed batch
Renderings == { <<>>, <<"a", ".">>, <<"#">> }

\* _batching_timer wakes from asyncio.sleep(batching window); when the user is
\* idle _confirm_batched_suggestions runs up to the wait inside speak_async
batching_timer(i) ==
    /\ ctask[i].pc = "sleep"
    /\ ~ctask[i].cancel
    /\ IF pending_suggestions = <<>>
       THEN /\ ctask' = [ctask EXCEPT ![i] = NoTask]
            /\ UNCHANGED <<pending_suggestions, phrase_queue, speak_complete_event>>
       ELSE   IF ~is_idle
              THEN /\ pending_suggestions' = <<>>
                   /\ ctask' = [ctask EXCEPT ![i] = NoTask]
                   /\ UNCHANGED <<phrase_queue, speak_complete_event>>
              ELSE LET batched == create_batched_suggestion(pending_suggestions)
                   IN  /\ Len(phrase_queue) < MaxPhrases
                       /\ pending_suggestions' = <<>>
                       /\ speak_complete_event' = FALSE
                       /\ phrase_queue' = speak(phrase_queue,
                                                generate_confirmation_prompt(batched), "prompt")
                       /\ ctask' = [ctask EXCEPT ![i] =
                                      [ctask[i] EXCEPT !.pc = "prompt_wait",
                                                       !.batch = batched]]
    /\ UNCHANGED <<batching_task, last_round, last_activity_time, buffer, speaking, set_posted, given, queued>>
    /\ UNCHANGED <<sessionVars, agentVars, consVars, sttVars, loopVars>>

\* _present_confirmation: speak_async(prompt) has returned, the response
\* listen starts
present_confirmation_listen(i) ==
    /\ ctask[i].pc = "prompt_ready"
    /\ ~ctask[i].cancel
    /\ ctask' = [ctask EXCEPT ![i].pc = "listen"]
    /\ start_listen(i)
    /\ UNCHANGED <<pending_suggestions, batching_task, last_round, last_activity_time, orphans>>
    /\ UNCHANGED <<sessionVars, ttsVars, agentVars, consVars>>

\* _present_confirmation resumes with the response; _confirm_batched_suggestions
\* goes on to _speak_suggestions when it is confirmed
present_confirmation_response(i) ==
    /\ ctask[i].pc = "listen"
    /\ ~ctask[i].cancel
    /\ listen[i].st = "done"
    /\ listen' = [listen EXCEPT ![i] = NoListen]
    /\ is_listening' = FALSE
    /\ LET response == IF listen[i].res.kind = "error" THEN NoText ELSE listen[i].res
       IN  /\ ctask' = [ctask EXCEPT ![i] =
                          IF confirmed_by(response)
                          THEN [ctask[i] EXCEPT !.pc = "generate", !.response = response]
                          ELSE NoTask]
           /\ last_round' = [returned |-> TRUE, response |-> response,
                             confirmed |-> confirmed_by(response)]
    /\ UNCHANGED last_activity_time
    /\ UNCHANGED <<pending_suggestions, batching_task, stop_event, orphans, fg_listens>>
    /\ UNCHANGED <<sessionVars, ttsVars, agentVars, consVars, loopVars>>

\* the listen of owner i receives CancelledError: it sets the stop flag,
\* cancels its future and sleeps 0.2 s
listen_cancel(i) ==
    /\ stop_event' = TRUE
    /\ IF listen[i].st = "running"
       THEN /\ orphans < MaxOrphans
            /\ orphans' = orphans + 1
       ELSE UNCHANGED orphans
    /\ listen' = [listen EXCEPT ![i] = [st |-> "cancelled", res |-> NoText]]
    /\ UNCHANGED <<is_listening, fg_listens>>

\* asyncio.wait_for(..., timeout=4.0) expires and cancels the listen
present_confirmation_timeout(i) ==
    /\ ctask[i].pc = "listen"
    /\ ~ctask[i].cancel
    /\ listen_cancel(i)
    /\ ctask' = [ctask EXCEPT ![i].pc = "listen_cancelled"]
    /\ UNCHANGED <<pending_suggestions, batching_task, last_round, last_activity_time>>
    /\ UNCHANGED <<sessionVars, ttsVars, agentVars, consVars, loopVars>>

\* the cancelled listen returns None (finally: is_listening = False) and the
\* round ends unconfirmed; after a cancellation of the task wait_for may
\* instead re-raise the CancelledError, which ends the task
listen_cancelled_return(i) ==
    /\ ctask[i].pc = "listen_cancelled"
    /\ ctask' = [ctask EXCEPT ![i] = NoTask]
    /\ listen' = [listen EXCEPT ![i] = NoListen]
    /\ is_listening' = FALSE
    /\ \/ last_round' = [returned |-> TRUE, response |-> NoText, confirmed |-> FALSE]
       \/ /\ ctask[i].cancel
          /\ last_round' = last_round
    /\ UNCHANGED last_activity_time
    /\ UNCHANGED <<pending_suggestions, batching_task, stop_event, orphans, fg_listens>>
    /\ UNCHANGED <<sessionVars, ttsVars, agentVars, consVars, loopVars>>

\* a task cancelled by clear_pending is resumed with CancelledError
task_cancelled(i) ==
    /\ ctask[i].cancel
    /\ ctask[i].pc \in {"sleep", "prompt_wait", "prompt_ready", "listen", "generate",
                        "content_wait", "content_ready"}
    /\ IF ctask[i].pc = "listen"
       THEN /\ listen_cancel(i)
            /\ ctask' = [ctask EXCEPT ![i].pc = "listen_cancelled"]
       ELSE /\ ctask' = [ctask EXCEPT ![i] = NoTask]
            /\ UNCHANGED sttVars
    /\ UNCHANGED <<pending_suggestions, batching_task, last_round, last_activity_time>>
    /\ UNCHANGED <<sessionVars, ttsVars, agentVars, consVars, loopVars>>

\* _speak_suggestions: the rendering of the language model ends (or fails) and
\* speak_async queues the content and waits, or returns at once when nothing
\* is left of the text after cleaning
speak_suggestions(i) ==
    /\ ctask[i].pc = "generate"
    /\ ~ctask[i].cancel
    /\ Len(phrase_queue) < MaxPhrases
    /\ \E full \in Renderings, failed \in BOOLEAN :
          LET text_to_speak == IF failed \/ Strip(full) = <<>>
                               THEN ctask[i].batch.combined_text
                               ELSE Strip(full)
          IN  IF clean_text_for_speech(text_to_speak) # <<>>
              THEN /\ phrase_queue' = speak(phrase_queue, text_to_speak, "content")
                   /\ speak_complete_event' = FALSE
                   /\ ctask' = [ctask EXCEPT ![i].pc = "content_wait"]
              ELSE /\ ctask' = [ctask EXCEPT ![i] = NoTask]
                   /\ UNCHANGED <<phrase_queue, speak_complete_event>>
    /\ UNCHANGED <<pending_suggestions, batching_task, last_round, last_activity_time, buffer, speaking,
                   set_posted, given, queued>>
    /\ UNCHANGED <<sessionVars, agentVars, consVars, sttVars, loopVars>>

\* speak_async returns after the content: the task is done
speak_suggestions_done(i) ==
    /\ ctask[i].pc = "content_ready"
    /\ ~ctask[i].cancel
    /\ ctask' = [ctask EXCEPT ![i] = NoTask]
    /\ UNCHANGED <<pending_suggestions, batching_task, last_round, last_activity_time>>
    /\ UNCHANGED <<sessionVars, ttsVars, agentVars, consVars, sttVars, loopVars>>

\* time.time() in is_idle: a second passes
second_passes ==
    /\ last_activity_time <= idle_detection_time
    /\ last_activity_time' = last_activity_time + 1
    /\ UNCHANGED <<pending_suggestions, batching_task, ctask, last_round>>
    /\ UNCHANGED <<sessionVars, ttsVars, agentVars, consVars, sttVars, loopVars>>

\* time.time() in is_idle: more than the idle detection time passes without
\* activity
idle_detection_time_passes ==
    /\ last_activity_time <= idle_detection_time
    /\ last_activity_time' = idle_detection_time + 1
    /\ UNCHANGED <<pending_suggestions, batching_task, ctask, last_round>>
    /\ UNCHANGED <<sessionVars, ttsVars, agentVars, consVars, sttVars, loopVars>>

\* --------------------------------------------- TTSManager: its callers
\* tokens a stream hands to add_to_buffer
StreamTokens == { <<"a">>, <<".">>, <<" ", "a">>, <<"#">> }

\* the characters of a text that the cleaning keeps
Letters(text) == SelectSeq(text, LAMBDA c : c \notin {" ", "#"})

RECURSIVE Texts(_)
Texts(queue) == IF queue = <<>> THEN <<>> ELSE Head(queue).text \o Texts(Tail(queue))

\* the characters kept by the cleaning in the phrases a call has put on the queue
Put(before, after) == Letters(Texts(SubSeq(after, Len(before) + 1, Len(after))))

\* a caller calls add_to_buffer with the next token
tts_add_to_buffer ==
    /\ Len(buffer) < MaxStreamBuffer
    /\ Len(phrase_queue) < MaxStreamPhrases
    /\ Len(given) < MaxGiven
    /\ \E token \in StreamTokens :
          LET added == add_to_buffer(buffer, phrase_queue, token)
          IN  /\ buffer' = added.buffer
              /\ phrase_queue' = added.queue
              /\ given' = given \o Letters(token)
              /\ queued' = queued \o Put(phrase_queue, added.queue)
    /\ UNCHANGED <<speaking, speak_complete_event, set_posted>>
    /\ UNCHANGED <<sessionVars, agentVars, consVars, confirmVars, sttVars, loopVars>>

\* a caller calls flush_buffer
tts_flush_buffer ==
    /\ Len(phrase_queue) < MaxStreamPhrases
    /\ LET flushed == flush_buffer(buffer, phrase_queue)
       IN  /\ buffer' = flushed.buffer
           /\ phrase_queue' = flushed.queue
           /\ queued' = queued \o Put(phrase_queue, flushed.queue)
    /\ UNCHANGED <<speaking, speak_complete_event, set_posted, given>>
    /\ UNCHANGED <<sessionVars, agentVars, consVars, confirmVars, sttVars, loopVars>>

\* a caller calls stop
tts_stop ==
    /\ LET stopped == stop(buffer, phrase_queue)
       IN  /\ buffer' = stopped.buffer
           /\ phrase_queue' = stopped.queue
    /\ given' = <<>>
    /\ queued' = <<>>
    /\ UNCHANGED <<speaking, speak_complete_event, set_posted>>
    /\ UNCHANGED <<sessionVars, agentVars, consVars, confirmVars, sttVars, loopVars>>

\* ------------------------------------- ConfirmationManager: its callers
\* suggestions a caller may hand to add_suggestion
BatchInputs ==
    { [confidence |-> 90, trigger_type |-> "decision_keyword", topic |-> None],
      [confidence |-> 70, trigger_type |-> "high_value_topic", topic |-> "work"],
      [confidence |-> 50, trigger_type |-> "hesitation", topic |-> None],
      [confidence |-> 90, trigger_type |-> "repetition", topic |-> None] }

\* a caller awaits add_suggestion, filling a batch
batch_add_suggestion ==
    /\ Len(pending_suggestions) < MaxBatch
    /\ \E s \in BatchInputs : add_suggestion(s)
    /\ UNCHANGED <<sessionVars, ttsVars, agentVars, consVars, sttVars, loopVars>>

\* suggestions handed to add_suggestion while rounds are in progress
ConfirmInputs ==
    { [confidence |-> 70, trigger_type |-> "high_value_topic", topic |-> "work"] }

\* callers await add_suggestion one after the other within a batch window
waiting_add_suggestion ==
    /\ Len(pending_suggestions) < MaxWaiting
    /\ \E s \in ConfirmInputs : add_suggestion(s)
    /\ UNCHANGED <<sessionVars, ttsVars, agentVars, consVars, sttVars, loopVars>>

\* a caller awaits add_suggestion
confirm_add_suggestion ==
    /\ Len(pending_suggestions) < MaxPending
    /\ \E s \in ConfirmInputs : add_suggestion(s)
    /\ UNCHANGED <<sessionVars, ttsVars, agentVars, consVars, sttVars, loopVars>>

\* a caller calls clear_pending
confirm_clear_pending ==
    /\ clear_pending
    /\ UNCHANGED <<last_round, last_activity_time>>
    /\ UNCHANGED <<sessionVars, ttsVars, agentVars, consVars, sttVars, loopVars>>

\* a caller calls update_activity
confirm_update_activity ==
    /\ update_activity
    /\ UNCHANGED <<pending_suggestions, batching_task, ctask, last_round>>
    /\ UNCHANGED <<sessionVars, ttsVars, agentVars, consVars, sttVars, loopVars>>

\* --------------------------------- STTManager._transcription_loop, in detail
\* STTManager.sample_rate, STTManager.blocksize: one block is frame_ms long
sample_rate == 16000
blocksize == 8000
frame_ms == (1000 * blocksize) \div sample_rate
\* STTManager.vad_blocksize: the samples the voice-activity model takes
vad_blocksize == 512
\* cfg "vad_release_ms" (default)
vad_release_ms == 300
\* audio_queue.get(timeout=0.1) and the 100 added to last_audio_time
get_timeout_ms == 100
\* timeout_threshold = 5000
timeout_threshold == 5000
\* time.time() - start_time > 5.0
overall_timeout_ms == 5000

\* a duration counter stops growing once it is past every limit it is compared to
Saturate(ms) == Min(ms, overall_timeout_ms + frame_ms)

\* STTManager._audio_callback: the open stream delivers the next block, a
\* block length after the last one or later
audio_callback ==
    /\ loopPc = "running"
    /\ phase * get_timeout_ms >= frame_ms
    /\ audio_queue < MaxAudioQueue
    /\ phase' = 0
    /\ audio_queue' = IF is_listening THEN audio_queue + 1 ELSE audio_queue
    /\ UNCHANGED <<use_vad, vad_enabled, vad_trigger_ms, vad_buffer, recognizer, loopPc,
                   loopLocals>>
    /\ UNCHANGED <<sessionVars, ttsVars, agentVars, consVars, confirmVars, sttVars>>

\* what the voice-activity model may do with a frame
VadOutcomes == {"speech", "silence", "error"}

\* _SileroVADProvider.process_frame: the verdict and the provider's _enabled
\* afterwards; a disabled provider answers speech, a runtime error disables it
DisabledStillGatesMutant(enabled, outcome) ==
    [speech |-> outcome # "silence", enabled |-> enabled /\ outcome # "error"]

process_frame(enabled, outcome) ==
    IF ~enabled THEN [speech |-> TRUE, enabled |-> FALSE]
    ELSE IF outcome = "error" THEN [speech |-> TRUE, enabled |-> FALSE]
    ELSE [speech |-> (outcome = "speech"), enabled |-> TRUE]

\* one pass of the while loop in which audio_queue.get returns a block (the
\* except around process_frame is never entered: process_frame does not raise)
SilenceKeptMutant ==
    /\ loopPc = "running"
    /\ audio_queue > 0
    /\ IF stop_event
       THEN /\ loopPc' = "final"
            /\ UNCHANGED <<use_vad, vad_enabled, vad_trigger_ms, vad_buffer, recognizer,
                           audio_queue, loopLocals>>
       ELSE /\ audio_queue' = audio_queue - 1
            /\ \E vad \in VadOutcomes :
                 LET verdict == process_frame(vad_enabled, vad)
                     is_speech_frame == IF use_vad THEN verdict.speech ELSE TRUE
                     speech  == IF is_speech_frame THEN Saturate(speech_ms + frame_ms) ELSE 0
                     silence == IF is_speech_frame THEN silence_ms ELSE Saturate(silence_ms + frame_ms)
                     start   == IF is_speech_frame THEN 0 ELSE since_start
                     released == ~is_speech_frame /\ in_speech /\ silence >= vad_release_ms
                 IN  /\ use_vad \/ vad = "speech"
                     /\ vad_enabled' = IF use_vad THEN verdict.enabled ELSE vad_enabled
                     /\ UNCHANGED <<use_vad, vad_trigger_ms>>
                     /\ vad_buffer' = IF use_vad
                                      THEN Min(vad_buffer + blocksize - vad_blocksize,
                                               MaxVadBuffer)
                                      ELSE vad_buffer
                     /\ recognizer' = IF is_speech_frame THEN "fed" ELSE recognizer
                     /\ speech_ms' = speech
                     /\ silence_ms' = silence
                     /\ last_audio_time' = 0
                     /\ since_start' = start
                     /\ in_speech' = (in_speech \/ (is_speech_frame /\ speech >= vad_trigger_ms))
                     /\ loopPc' = IF released \/ start > overall_timeout_ms
                                  THEN "final" ELSE "running"
    /\ UNCHANGED phase
    /\ UNCHANGED <<sessionVars, ttsVars, agentVars, consVars, confirmVars, sttVars>>

transcription_loop_frame ==
    /\ loopPc = "running"
    /\ audio_queue > 0
    /\ IF stop_event
       THEN /\ loopPc' = "final"
            /\ UNCHANGED <<use_vad, vad_enabled, vad_trigger_ms, vad_buffer, recognizer,
                           audio_queue, loopLocals>>
       ELSE /\ audio_queue' = audio_queue - 1
            /\ \E vad \in VadOutcomes :
                 LET verdict == process_frame(vad_enabled, vad)
                     is_speech_frame == IF use_vad THEN verdict.speech ELSE TRUE
                     speech  == IF is_speech_frame THEN Saturate(speech_ms + frame_ms) ELSE 0
                     silence == IF is_speech_frame THEN 0 ELSE Saturate(silence_ms + frame_ms)
                     start   == IF is_speech_frame THEN 0 ELSE since_start
                     released == ~is_speech_frame /\ in_speech /\ silence >= vad_release_ms
                 IN  /\ use_vad \/ vad = "speech"
                     /\ vad_enabled' = IF use_vad THEN verdict.enabled ELSE vad_enabled
                     /\ UNCHANGED <<use_vad, vad_trigger_ms>>
                     /\ vad_buffer' = IF use_vad
                                      THEN Min(vad_buffer + blocksize - vad_blocksize,
                                               MaxVadBuffer)
                                      ELSE vad_buffer
                     /\ recognizer' = IF is_speech_frame THEN "fed" ELSE recognizer
                     /\ speech_ms' = speech
                     /\ silence_ms' = silence
                     /\ last_audio_time' = 0
                     /\ since_start' = start
                     /\ in_speech' = (in_speech \/ (is_speech_frame /\ speech >= vad_trigger_ms))
                     /\ loopPc' = IF released \/ start > overall_timeout_ms
                                  THEN "final" ELSE "running"
    /\ UNCHANGED phase
    /\ UNCHANGED <<sessionVars, ttsVars, agentVars, consVars, confirmVars, sttVars>>

\* one pass of the while loop in which audio_queue.get times out (queue.Empty)
transcription_loop_empty ==
    /\ loopPc = "running"
    /\ audio_queue = 0
    /\ IF stop_event
       THEN /\ loopPc' = "final"
            /\ UNCHANGED <<phase, last_audio_time, since_start>>
       ELSE /\ phase' = Min(phase + 1, frame_ms \div get_timeout_ms)
            /\ since_start' = Saturate(since_start + get_timeout_ms)
            /\ last_audio_time' = last_audio_time + get_timeout_ms
            /\ loopPc' = IF last_audio_time + get_timeout_ms >= timeout_threshold
                         THEN "final" ELSE "running"
    /\ UNCHANGED <<use_vad, vad_enabled, vad_trigger_ms, vad_buffer, recognizer,
                   audio_queue, in_speech, speech_ms, silence_ms>>
    /\ UNCHANGED <<sessionVars, ttsVars, agentVars, consVars, confirmVars, sttVars>>

\* after the while loop: FinalResult, and the transcript is handed to the future
\* (a recognizer that was fed nothing since its last FinalResult has no text)
transcription_loop_final ==
    /\ loopPc = "final"
    /\ loopPc' = "done"
    /\ IF listen[Foreground].st = "running"
       THEN \E t \in (IF recognizer = "fed" THEN FgUtterances ELSE {<<>>}) :
               set_result(Foreground, Text(t))
       ELSE UNCHANGED listen
    /\ recognizer' = "reset"
    /\ UNCHANGED <<is_listening, stop_event, orphans, fg_listens>>
    /\ UNCHANGED <<use_vad, vad_enabled, vad_trigger_ms, vad_buffer, audio_queue, phase,
                   loopLocals>>
    /\ UNCHANGED <<sessionVars, ttsVars, agentVars, consVars, confirmVars>>

\* the stream or the recognizer raises: the exception is handed to the future
transcription_loop_raises ==
    /\ loopPc = "running"
    /\ loopPc' = "done"
    /\ IF listen[Foreground].st = "running"
       THEN set_result(Foreground, Failed)
       ELSE UNCHANGED listen
    /\ UNCHANGED <<is_listening, stop_event, orphans, fg_listens>>
    /\ UNCHANGED <<use_vad, vad_enabled, vad_trigger_ms, vad_buffer, recognizer,
                   audio_queue, phase, loopLocals>>
    /\ UNCHANGED <<sessionVars, ttsVars, agentVars, consVars, confirmVars>>

\* ------------------------------------- AutonomyAgent driven by its callers
\* what a caller may pass to update_user_input
AgentInputs ==
    { <<"hello">>, <<"Maybe", "work">>, <<"um">>, <<"homework">>,
      <<"should", "i", "think", "maybe">>,
      <<"work", "project", "meeting", "plan">>,
      <<"um", "um", "um", "um", "um">>,
      <<"should", "i", "think", "work", "project">> }

\* a caller calls pause()
agent_pause ==
    /\ pause
    /\ UNCHANGED <<suggestion_queue, autoPc, last_user_input, input_history,
                   confidence_threshold, autonomy_stop_event, last_emit>>
    /\ UNCHANGED <<sessionVars, ttsVars, consVars, confirmVars, sttVars, loopVars>>

\* a caller calls resume()
agent_resume ==
    /\ resume
    /\ UNCHANGED <<suggestion_queue, autoPc, last_user_input, input_history,
                   confidence_threshold, autonomy_stop_event, last_emit>>
    /\ UNCHANGED <<sessionVars, ttsVars, consVars, confirmVars, sttVars, loopVars>>

\* a caller calls update_user_input(text)
agent_update_user_input ==
    /\ Len(input_history) < MaxInputs
    /\ \E text \in AgentInputs : update_user_input(text)
    /\ UNCHANGED <<paused_event, suggestion_queue, autoPc, confidence_threshold, autonomy_stop_event, last_emit>>
    /\ UNCHANGED <<sessionVars, ttsVars, consVars, confirmVars, sttVars, loopVars>>

\* a caller calls stop(): the flag is set (the join gives up after 2 s)
agent_stop ==
    /\ autonomy_stop_event' = TRUE
    /\ UNCHANGED <<paused_event, suggestion_queue, autoPc, last_user_input, input_history,
                   confidence_threshold, last_emit>>
    /\ UNCHANGED <<sessionVars, ttsVars, consVars, confirmVars, sttVars, loopVars>>

\* a caller awaits get_next_suggestion_async
agent_get_next ==
    /\ get_next_suggestion_async
    /\ UNCHANGED consPc
    /\ UNCHANGED <<paused_event, autoPc, last_user_input, input_history, confidence_threshold, autonomy_stop_event, last_emit>>
    /\ UNCHANGED <<sessionVars, ttsVars, confirmVars, sttVars, loopVars>>

\* ---------------------------------------------------------- specifications
vars == <<sessionVars, ttsVars, agentVars, consVars, confirmVars, sttVars, loopVars>>

\* the whole assistant; the transcription loops are seen from outside
Next ==
    \/ PostTrigger
    \/ handle_hotkey_press
    \/ \E o \in Owners : loop_exit(o)
    \/ orphan_exit
    \/ listen_and_respond_recognized
    \/ stream_brain_to_tts
    \/ brain_task_cancelled
    \/ listen_and_respond_finish
    \/ tts_worker_get
    \/ tts_worker_spoken
    \/ tts_worker_timeout
    \/ event_set
    \/ run_loop_check
    \/ run_loop_tick
    \/ consume_wake
    \/ consume_get
    \/ consume_got
    \/ idle_detection_time_passes
    \/ \E i \in ConfirmSlots :
          \/ batching_timer(i)
          \/ present_confirmation_listen(i)
          \/ present_confirmation_response(i)
          \/ present_confirmation_timeout(i)
          \/ listen_cancelled_return(i)
          \/ task_cancelled(i)
          \/ speak_suggestions(i)
          \/ speak_suggestions_done(i)

Spec == Init /\ [][Next]_vars

\* the event loop runs every ready callback: a cancelled brain task is resumed
\* and the turn that awaits it goes on
FairSpec ==
    /\ Spec
    /\ WF_vars(brain_task_cancelled)
    /\ WF_vars(listen_and_respond_finish)

\* the threads of cancelled listens run (a loop reads the stop flag every
\* 100 ms, and its get calls time out while nothing is queued: it does not miss
\* a flag that is set again and again) and the event loop resumes the tasks
\* whose listen has ended; what a loop hears is not assumed
FairSpecLoops ==
    /\ Spec
    /\ SF_vars(orphan_sees_stop)
    /\ SF_vars(orphan_times_out)
    /\ WF_vars(listen_and_respond_recognized)
    /\ \A i \in ConfirmSlots :
          /\ WF_vars(listen_cancelled_return(i))
          /\ WF_vars(task_cancelled(i))
          /\ WF_vars(present_confirmation_response(i))

\* the confirmation manager with overlapping tasks, the synthesis worker and
\* the response listens, driven by its callers
InitConfirm ==
    /\ Constructed
    /\ ctask = TaskSlots(MaxOverlap)
    /\ confidence_threshold = default_confidence_threshold
    /\ use_vad = FALSE
    /\ vad_enabled = FALSE
    /\ vad_trigger_ms = default_vad_trigger_ms

NextConfirm ==
    \/ confirm_add_suggestion
    \/ confirm_clear_pending
    \/ confirm_update_activity
    \/ idle_detection_time_passes
    \/ tts_worker_get
    \/ tts_worker_spoken
    \/ tts_worker_timeout
    \/ event_set
    \/ \E i \in ConfirmSlots : loop_exit(i)
    \/ orphan_exit
    \/ \E i \in ConfirmSlots :
          \/ batching_timer(i)
          \/ present_confirmation_listen(i)
          \/ present_confirmation_response(i)
          \/ present_confirmation_timeout(i)
          \/ listen_cancelled_return(i)
          \/ task_cancelled(i)
          \/ speak_suggestions(i)
          \/ speak_suggestions_done(i)

SpecConfirm == InitConfirm /\ [][NextConfirm]_vars

\* the pending list and its timers: callers add and clear, timers expire and
\* queue their prompts, the synthesis worker speaks them
NextWaiting ==
    \/ waiting_add_suggestion
    \/ confirm_clear_pending
    \/ confirm_update_activity
    \/ idle_detection_time_passes
    \/ tts_worker_get
    \/ tts_worker_spoken
    \/ tts_worker_timeout
    \/ event_set
    \/ \E i \in ConfirmSlots :
          \/ batching_timer(i)
          \/ task_cancelled(i)

SpecWaiting == InitConfirm /\ [][NextWaiting]_vars

\* asyncio.sleep of a batch timer ends after the batch window and the event
\* loop resumes the task; a cancelled task is resumed with its CancelledError;
\* the synthesis worker thread runs
FairSpecWaiting ==
    /\ SpecWaiting
    /\ WF_vars(tts_worker_get)
    /\ WF_vars(tts_worker_spoken)
    /\ \A i \in ConfirmSlots : WF_vars(batching_timer(i))

\* the batching alone: callers fill the pending list and the timer closes it
NextBatch ==
    \/ batch_add_suggestion
    \/ confirm_update_activity
    \/ second_passes
    \/ \E i \in ConfirmSlots : batching_timer(i)

SpecBatch == InitConfirm /\ [][NextBatch]_vars

\* the synthesis manager: its callers and its worker thread
NextTTS ==
    \/ tts_add_to_buffer
    \/ tts_flush_buffer
    \/ tts_stop
    \/ tts_worker_get
    \/ tts_worker_spoken
    \/ tts_worker_timeout
    \/ event_set

SpecTTS == Init /\ [][NextTTS]_vars

\* the autonomy agent, its worker thread and its callers
NextAgent ==
    \/ agent_pause
    \/ agent_resume
    \/ agent_update_user_input
    \/ agent_get_next
    \/ run_loop_check
    \/ run_loop_tick

SpecAgent == InitAgent /\ [][NextAgent]_vars

\* the autonomy agent up to and after stop()
NextStop ==
    \/ agent_pause
    \/ agent_resume
    \/ agent_update_user_input
    \/ agent_get_next
    \/ agent_stop
    \/ run_loop_check
    \/ run_loop_tick

SpecStop == Init /\ [][NextStop]_vars

\* the worker thread runs
FairSpecStop ==
    /\ SpecStop
    /\ WF_vars(run_loop_check)
    /\ WF_vars(run_loop_tick)

\* a turn's listen with its transcription loop pass by pass
NextSTT ==
    \/ PostTrigger
    \/ handle_hotkey_press
    \/ audio_callback
    \/ transcription_loop_frame
    \/ transcription_loop_empty
    \/ transcription_loop_final
    \/ transcription_loop_raises
    \/ listen_and_respond_recognized

SpecSTT == InitSTT /\ [][NextSTT]_vars

\* the stream delivers its blocks, the loop thread runs, and the event loop
\* resumes the turn when the future is set
FairSpecSTT ==
    /\ SpecSTT
    /\ WF_vars(audio_callback)
    /\ WF_vars(transcription_loop_frame)
    /\ WF_vars(transcription_loop_empty)
    /\ WF_vars(transcription_loop_final)
    /\ WF_vars(listen_and_respond_recognized)

\* ------------------------------------------------------------------ claims
\* a phrase of a suggestion: its confirmation prompt or its delivered content
SuggestionPhrase(p) == p.src \in {"prompt", "content"}

\* the step is a run of handle_hotkey_press in the given states
HandlerRunsIn(states) == scheduled' < scheduled /\ state \in states

\* C1: a suggestion (its prompt or its content) is put on the synthesis queue,
\* or taken from it to be spoken, only while state is Idle
C1_SuggestionSpeechOnlyWhileIdle ==
    [][ (\/ /\ speaking' # speaking
            /\ SuggestionPhrase(speaking')
         \/ /\ Len(phrase_queue') > Len(phrase_queue)
            /\ SuggestionPhrase(phrase_queue'[Len(phrase_queue')]))
        => state = "Idle" ]_vars

\* C2: once a barge-in handler has run, state changes only to Idle, and it
\* does reach Idle
C2_BargeInLeadsToIdle ==
    /\ [][ (barge_in \/ barge_in') => state' \in {state, "Idle"} ]_vars
    /\ (barge_in ~> state = "Idle")

C2_Witness == barge_in /\ state = "Speaking" /\ current_brain_task = "cancelled"

\* C3: the barge-in handler leaves the buffer and the phrase queue empty, and
\* until the turn is Idle again the buffer stays empty and no phrase of the
\* turn is on the queue
C3_NothingOfTheCancelledStream ==
    /\ [][ HandlerRunsIn({"Thinking", "Speaking"})
            => buffer' = <<>> /\ phrase_queue' = <<>> ]_vars
    /\ [](barge_in => /\ buffer = <<>>
                      /\ \A k \in 1..Len(phrase_queue) : phrase_queue[k].src # "turn")

C3_Witness == barge_in /\ speaking.src = "turn" /\ current_brain_task = "must_cancel"

\* C4: a handler run in Listening changes nothing but the log, and at most one
\* turn and one listen of a turn are in progress
C4_TriggerWhileListeningIgnored ==
    /\ [][ HandlerRunsIn({"Listening"})
            => UNCHANGED <<state, turns, turnPc, current_brain_task, barge_in, posted,
                           ttsVars, agentVars, consVars, confirmVars, sttVars, loopVars>> ]_vars
    /\ [](turns <= 1 /\ fg_listens <= 1)

C4_Witness == ignored > 0 /\ state = "Listening" /\ listen[Foreground].st = "running"

\* C5: a handler run in Idle leaves, in one step, the agent paused, the pending
\* list empty, no batch timer that can still fire, state Listening and one
\* listen started; a listen of a turn is started by no other step
C5_IdleTriggerStartsOneListen ==
    /\ [][ HandlerRunsIn({"Idle"})
            => /\ paused_event'
               /\ pending_suggestions' = <<>>
               /\ batching_task' = 0
               /\ \A i \in ConfirmSlots : ctask'[i].pc = "sleep" => ctask'[i].cancel
               /\ state' = "Listening"
               /\ fg_listens' = fg_listens + 1
               /\ listen'[Foreground].st = "running" ]_vars
    /\ [][ fg_listens' > fg_listens => HandlerRunsIn({"Idle"}) ]_vars

C5_Witness ==
    /\ state = "Listening"
    /\ paused_event
    /\ fg_listens = 1
    /\ \E i \in ConfirmSlots : ctask[i].pc = "sleep" /\ ctask[i].cancel

\* the transcript the turn's listen has handed over, empty when it failed
FgTranscript ==
    IF listen[Foreground].res.kind = "text" THEN listen[Foreground].res.text ELSE <<>>

\* C6: state is one of the four states and changes only along Idle->Listening,
\* Listening->Idle (no transcript), Listening->Thinking (a transcript),
\* Thinking->Speaking, Speaking->Idle, Thinking->Idle
C6_StateMachine ==
    /\ [](state \in VoiceState)
    /\ [][ state' # state =>
             \/ state = "Idle" /\ state' = "Listening"
             \/ state = "Listening" /\ state' = "Idle" /\ FgTranscript = <<>>
             \/ state = "Listening" /\ state' = "Thinking" /\ FgTranscript # <<>>
             \/ state = "Thinking" /\ state' = "Speaking"
             \/ state = "Speaking" /\ state' = "Idle"
             \/ state = "Thinking" /\ state' = "Idle" ]_vars

C6_Witness == state = "Idle" /\ current_brain_task = "finished" /\ speaking.src = "turn"

\* the scorer's verdict on the agent's present input
Verdict(recent) == analyze_context(last_user_input, input_history, recent)

\* C7: when the scorer resolves the trigger to periodic, no suggestion is
\* produced whatever the confidence and the threshold, a tick puts nothing on
\* the suggestion queue, and no periodic suggestion is on the queue or handed
\* to a consumer
C7_PeriodicNeverSuggested ==
    /\ [](\A recent \in BOOLEAN :
             Verdict(recent).trigger_type = "periodic"
             => generate_context_aware_suggestion(last_user_input, input_history, recent,
                                                  confidence_threshold) = NoSuggestion)
    /\ []( /\ \A k \in 1..Len(suggestion_queue) :
                 suggestion_queue[k].trigger_type # "periodic"
           /\ consItem.trigger_type # "periodic" )
    /\ [][ (autoPc = "tick" /\ Verdict(FALSE).trigger_type = "periodic")
            => Len(suggestion_queue') <= Len(suggestion_queue) ]_vars

C7_Witness ==
    /\ autoPc = "tick"
    /\ last_user_input # <<>>
    /\ Verdict(TRUE).trigger_type = "periodic"
    /\ confidence_threshold > 0
    /\ Verdict(TRUE).confidence >= confidence_threshold

\* a response that holds a word of the affirmative set
Affirmative(response) ==
    /\ response.kind = "text"
    /\ \E w \in yes_words : KeywordIn(Lower(response.text), w)

\* C8: a round whose response is missing (timed out, failed), empty or without
\* an affirmative word is decided confirmed = false, and the content is
\* rendered and queued only in a round whose response held an affirmative word
C8_FailClosedConfirmation ==
    /\ [](last_round.confirmed => Affirmative(last_round.response))
    /\ [](\A i \in ConfirmSlots :
             ctask[i].pc \in {"generate", "content_wait", "content_ready"}
             => Affirmative(ctask[i].response))
    /\ [][ (/\ Len(phrase_queue') > Len(phrase_queue)
            /\ phrase_queue'[Len(phrase_queue')].src = "content")
            => \E i \in ConfirmSlots :
                  ctask[i].pc = "generate" /\ Affirmative(ctask[i].response) ]_vars

C8_Witness ==
    /\ last_round.returned
    /\ last_round.response = Text(<<"hello">>)
    /\ ~last_round.confirmed
    /\ \A i \in ConfirmSlots : ctask[i].pc \in {"free", "unused"}

\* C9: while the agent is paused, from pause() to resume(), nothing is put on
\* the suggestion queue (stated for the default threshold)
C9_NoPutWhilePaused ==
    [][ (/\ confidence_threshold = default_confidence_threshold
         /\ paused_event
         /\ paused_event')
        => Len(suggestion_queue') <= Len(suggestion_queue) ]_vars

\* C10: with the voice-activity gate off, a turn's listen that has started
\* returns to the turn
C10_ListenReturnsWithoutGate ==
    (turnPc = "recognize" /\ ~use_vad) ~> (turnPc # "recognize")

\* task i goes on with its round: it queues the prompt, starts the response
\* listen, or queues the suggestion content
RoundGoesOn(i) ==
    \/ ctask[i].pc = "sleep" /\ ctask'[i].pc = "prompt_wait"
    \/ ctask[i].pc = "prompt_ready" /\ ctask'[i].pc = "listen"
    \/ ctask[i].pc = "generate" /\ ctask'[i].pc = "content_wait"

\* C11: clear_pending leaves the pending list empty, and no task that was
\* alive when it was called goes on to queue a prompt, start a response listen
\* or queue suggestion content
C11_ClearPendingStopsRounds ==
    /\ [][ (batching_task # 0 /\ batching_task' = 0) => pending_suggestions' = <<>> ]_vars
    /\ [][ \A i \in ConfirmSlots : ctask[i].cleared => ~RoundGoesOn(i) ]_vars

\* task i closes its batch: _create_batched_suggestion has run on the pending list
BatchClosed(i) == ctask[i].pc = "sleep" /\ ctask'[i].pc = "prompt_wait"

\* C12: the batch built from n pending suggestions holds min(3, n) of them, in
\* descending confidence, none left out has a higher confidence than one kept,
\* highest_confidence is the maximum over the pending list, primary_trigger is
\* the trigger of the first suggestion of the batch, which has that maximum,
\* and the pending list is empty afterwards
C12_BatchIsTopThree ==
    [][ \A i \in ConfirmSlots : BatchClosed(i) =>
          LET pending == pending_suggestions
              b       == ctask'[i].batch
              n       == Len(pending)
              m       == Len(b.suggestions)
          IN  /\ n > 0
              /\ m = (IF n < 3 THEN n ELSE 3)
              /\ \A k \in 1..(m - 1) :
                     b.suggestions[k].confidence >= b.suggestions[k + 1].confidence
              /\ \E f \in [1..m -> 1..n] :
                     /\ \A k, l \in 1..m : f[k] = f[l] => k = l
                     /\ \A k \in 1..m : pending[f[k]] = b.suggestions[k]
                     /\ \A j \in 1..n :
                            (\A k \in 1..m : f[k] # j)
                               => pending[j].confidence <= b.suggestions[m].confidence
              /\ \A j \in 1..n : pending[j].confidence <= b.highest_confidence
              /\ b.suggestions[1].confidence = b.highest_confidence
              /\ b.suggestions[1].trigger_type = b.primary_trigger
              /\ pending_suggestions' = <<>> ]_vars

\* a batch of three was built out of suggestions of different confidences
C12_Witness ==
    \E i \in ConfirmSlots :
        /\ ctask[i].pc = "prompt_wait"
        /\ Len(ctask[i].batch.suggestions) = 3
        /\ ctask[i].batch.suggestions[1].confidence > ctask[i].batch.suggestions[3].confidence
        /\ ctask[i].batch.highest_confidence = 90
        /\ pending_suggestions = <<>>

\* the batch window of task i expires (the task was not cancelled) on a
\* non-empty pending list
TimerExpires(i) ==
    /\ ctask[i].pc = "sleep"
    /\ ~ctask[i].cancel
    /\ ctask'[i].pc # "sleep"
    /\ pending_suggestions # <<>>

\* C13: when the batch window expires less than the idle detection time after
\* the last update_activity, the pending list is emptied, the task ends
\* holding no batch, nothing is queued for speech and no listen is started
C13_NotIdleDiscardsBatch ==
    [][ \A i \in ConfirmSlots :
          (TimerExpires(i) /\ last_activity_time < idle_detection_time)
             => /\ pending_suggestions' = <<>>
                /\ ctask'[i] = NoTask
                /\ \A j \in ConfirmSlots \ {i} : ctask'[j] = ctask[j]
                /\ phrase_queue' = phrase_queue
                /\ speaking' = speaking
                /\ listen' = listen ]_vars

\* a batch was discarded: the handle names a task that has ended, without a
\* round, a clear_pending or any speech
C13_Witness ==
    /\ batching_task # 0
    /\ pending_suggestions = <<>>
    /\ \A i \in ConfirmSlots : ctask[i].pc \in {"free", "unused"}
    /\ last_activity_time < idle_detection_time
    /\ last_round = NoRound
    /\ phrase_queue = <<>>
    /\ speaking = NoPhrase

\* the stream of a turn ends with the terminal error event as its first chunk:
\* the brain task finishes and the state is still Thinking
StreamFailsAtOnce ==
    /\ turnPc = "brain"
    /\ state = "Thinking"
    /\ current_brain_task = "pending"
    /\ current_brain_task' = "finished"
    /\ state' = "Thinking"

\* C14: when the generation stream of a turn fails, the apology is queued for
\* synthesis
C14_FailedStreamApologises ==
    [][ StreamFailsAtOnce
        => \E k \in 1..Len(phrase_queue') : phrase_queue'[k].text = apology ]_vars

IsPrefix(p, q) == Len(p) <= Len(q) /\ SubSeq(q, 1, Len(p)) = p

\* C15: the worker takes a phrase only when it speaks none, and takes the
\* head of the queue; the queue changes only by that, by phrases appended at
\* its end, or by being cleared; and what a token adds to the queue and the
\* buffer are the characters of the buffer and the token in their order
C15_SpokenInQueuedOrder ==
    /\ [][ (speaking' # speaking /\ speaking' # NoPhrase)
           => /\ speaking = NoPhrase
              /\ phrase_queue # <<>>
              /\ speaking' = Head(phrase_queue)
              /\ phrase_queue' = Tail(phrase_queue) ]_vars
    /\ [][ (speaking' = speaking /\ <<buffer, phrase_queue>>' # <<buffer, phrase_queue>>)
           => \/ buffer' = <<>> /\ phrase_queue' = <<>>
              \/ /\ IsPrefix(phrase_queue, phrase_queue')
                 /\ \E text \in StreamTokens \cup {<<>>} :
                        Letters(Texts(SubSeq(phrase_queue', Len(phrase_queue) + 1,
                                             Len(phrase_queue'))) \o buffer')
                           = Letters(buffer \o text) ]_vars

\* the worker speaks one phrase while two different ones wait behind it
C15_Witness ==
    /\ speaking # NoPhrase
    /\ Len(phrase_queue) = 2
    /\ phrase_queue[1].text # phrase_queue[2].text
    /\ speaking.text # phrase_queue[1].text

\* the signals of the scorer on the latest input and the history, each by the
\* terms that occur
LatestText == Lower(last_user_input)
DecisionTerms == {kw \in Range(decision_keywords) : KeywordIn(LatestText, kw)}
TopicTerms == {kw \in Range(high_value_topics) : KeywordIn(LatestText, kw)}
HesitationHits ==
    {<<i, alt>> \in (1..Len(LatestText)) \X (hesitation_patterns[1] \cup hesitation_patterns[2]) :
        /\ i + Len(alt) - 1 <= Len(LatestText)
        /\ SubSeq(LatestText, i, i + Len(alt) - 1) = alt}
DuplicateInLastThree ==
    /\ Len(input_history) >= 3
    /\ \E i, j \in (Len(input_history) - 2)..Len(input_history) :
          i < j /\ Lower(input_history[i]) = Lower(input_history[j])

\* C16: the trigger type is decision_keyword if a decision keyword occurs,
\* else high_value_topic if a topic occurs, else hesitation if a pattern
\* matches, else repetition if the last three inputs hold a duplicate, else
\* periodic
C16_TriggerPrecedence ==
    last_user_input # <<>> =>
      \A recent \in BOOLEAN :
        Verdict(recent).trigger_type =
          (IF DecisionTerms # {} THEN "decision_keyword"
           ELSE IF TopicTerms # {} THEN "high_value_topic"
           ELSE IF HesitationHits # {} THEN "hesitation"
           ELSE IF DuplicateInLastThree THEN "repetition"
           ELSE "periodic")

\* the worker is about to score an input that carries a decision keyword, a
\* topic and a repetition at once
C16_Witness ==
    /\ autoPc = "tick"
    /\ DecisionTerms # {}
    /\ TopicTerms # {}
    /\ DuplicateInLastThree
    /\ Verdict(TRUE).trigger_type = "decision_keyword"

\* C17: the confidence, in hundredths, is the capped sum of the capped parts
C17_ConfidenceFormula ==
    last_user_input # <<>> =>
      \A recent \in BOOLEAN :
        /\ Verdict(recent).confidence =
              Min(100, Min(30 * Cardinality(DecisionTerms), 80)
                       + Min(20 * Cardinality(TopicTerms), 60)
                       + Min(10 * Cardinality(HesitationHits), 40)
                       + (IF DuplicateInLastThree THEN 30 ELSE 0)
                       + (IF recent THEN 20 ELSE 0))
        /\ Verdict(recent).confidence \in 0..100

\* the worker is about to score an input whose parts add up to more than 1.0
C17_Witness ==
    /\ autoPc = "tick"
    /\ Min(30 * Cardinality(DecisionTerms), 80) + Min(20 * Cardinality(TopicTerms), 60) + 20 > 100
    /\ Verdict(TRUE).confidence = 100

\* C18 as stated: the topic is the first matching term in the configured order
C18_TopicIsFirstMatch ==
    last_user_input # <<>> =>
      Verdict(TRUE).topic =
        (IF TopicTerms = {} THEN None
         ELSE high_value_topics[CHOOSE k \in 1..Len(high_value_topics) :
                  /\ high_value_topics[k] \in TopicTerms
                  /\ \A j \in 1..(k - 1) : high_value_topics[j] \notin TopicTerms][1])

\* C18: the topic is the last matching term in the configured order, and
\* absent when no term matches
C18_TopicIsLastMatch ==
    last_user_input # <<>> =>
      Verdict(TRUE).topic =
        (IF TopicTerms = {} THEN None
         ELSE high_value_topics[CHOOSE k \in 1..Len(high_value_topics) :
                  /\ high_value_topics[k] \in TopicTerms
                  /\ \A j \in (k + 1)..Len(high_value_topics) :
                         high_value_topics[j] \notin TopicTerms][1])

\* the worker is about to score an input that names several topics
C18_Witness ==
    /\ autoPc = "tick"
    /\ Cardinality(TopicTerms) > 1
    /\ Verdict(TRUE).topic = "plan"

Negative(response) ==
    response.kind = "text" /\ \E w \in no_words : KeywordIn(Lower(response.text), w)

\* C19: a round whose response matches a word of the negative set is not
\* confirmed, whatever else the response contains
C19_NegativeWordNeverConfirms ==
    last_round.returned /\ Negative(last_round.response) => ~last_round.confirmed

\* the loop hands a frame to the gate
FrameClassified == loopPc = "running" /\ audio_queue' < audio_queue /\ use_vad

\* C20: the gate never raises into the loop (the loop's handler, which would
\* clear use_vad, never runs); once the gate has failed it stays disabled,
\* and every frame it is given afterwards counts as speech
C20_GateFailsOpenForGood ==
    /\ [][ use_vad' = use_vad ]_vars
    /\ [][ ~vad_enabled => ~vad_enabled' ]_vars
    /\ [][ (FrameClassified /\ ~vad_enabled)
           => /\ silence_ms' = 0
              /\ speech_ms' = Saturate(speech_ms + frame_ms) ]_vars

\* the gate has failed during a listen and frames after the failure were
\* taken as speech
C20_Witness ==
    /\ use_vad
    /\ ~vad_enabled
    /\ loopPc = "running"
    /\ speech_ms >= 2 * frame_ms

\* the transcription loop of the turn's listen hands its transcript over
LoopReturns ==
    /\ loopPc = "final"
    /\ loopPc' = "done"
    /\ listen[Foreground].st = "running"

\* C21: a listen whose loop ends without ever having reached the speech
\* trigger (in_speech still false) returns the empty transcript
C21_NoTriggerNoTranscript ==
    [][ (LoopReturns /\ ~in_speech) => listen'[Foreground].res = Text(<<>>) ]_vars

\* a listen of the turn starts
ListenStarts == fg_listens' > fg_listens

\* C23: a listen starts with an empty capture queue and an empty
\* voice-activity buffer, whatever the listens before it did
C23_ListenStartsClean ==
    [][ ListenStarts => (audio_queue' = 0 /\ vad_buffer' = 0) ]_vars

\* the _transcription_loop threads that are running
RunningLoops == orphans + Cardinality({o \in Owners : listen[o].st = "running"})

\* C24: at most one transcription loop is running at any time
C24_OneTranscriptionLoop == RunningLoops <= 1

\* C22: a listen that is cancelled while its loop runs returns no result, no
\* transcript is handed to it afterwards, and its loop thread eventually ends
C22_CancelledListenIsDiscarded ==
    /\ [][ \A o \in Owners :
             listen[o].st = "cancelled"
             => /\ listen'[o].st \in {"cancelled", "none"}
                /\ listen'[o].res = NoText
                /\ (listen'[o].st = "none" /\ last_round' # last_round
                    => last_round'.response = NoText) ]_vars
    /\ (orphans > 0) ~> (orphans = 0)

\* C25: once stop() has set the flag the worker loop ends, whether it sleeps
\* or is within a tick, and after it has ended nothing more is put on the queue
C25_StopEndsWorker ==
    /\ autonomy_stop_event ~> (autoPc = "exited")
    /\ [][ autoPc = "exited"
           => (autoPc' = "exited" /\ Len(suggestion_queue') <= Len(suggestion_queue)) ]_vars

C25_Witness ==
    /\ autonomy_stop_event
    /\ autoPc = "exited"
    /\ paused_event
    /\ suggestion_queue # <<>>

\* C26: the autonomy agent is paused in every state other than Idle, and the
\* step of a turn that brings the state back to Idle resumes it
C26_PausedOutsideIdle ==
    /\ [](state # "Idle" => paused_event)
    /\ [][ (state # "Idle" /\ state' = "Idle") => ~paused_event' ]_vars

C26_Witness ==
    /\ state = "Idle"
    /\ ~paused_event
    /\ turns = 0
    /\ last_user_input # <<>>

\* C27: is_idle is false right after update_activity, stays false while less
\* than the idle detection time has passed since, and is true once that time
\* has passed without a further update_activity
C27_IdleAfterThreshold ==
    /\ [][ (last_activity_time' < last_activity_time) => ~is_idle' ]_vars
    /\ [][ (~is_idle /\ last_activity_time' < idle_detection_time) => ~is_idle' ]_vars
    /\ [](last_activity_time >= idle_detection_time => is_idle)

C27_Witness ==
    /\ last_activity_time = idle_detection_time
    /\ is_idle
    /\ pending_suggestions # <<>>

\* the sentence ends in the phrase buffer
BufferedBoundaries == {e \in 1..Len(buffer) : buffer[e] = "."}

\* C28: add_to_buffer leaves no sentence end in the buffer whose text, from the
\* start of the buffer and stripped, is longer than chunk_chars_min
C28_LongPhrasesAreQueued ==
    \A e \in BufferedBoundaries : Len(Strip(SubSeq(buffer, 1, e))) <= chunk_chars_min

\* a phrase queued by speak_async for src is waiting in the queue or being spoken
Unspoken(src) ==
    \/ speaking # NoPhrase /\ speaking.src = src
    \/ \E k \in 1..Len(phrase_queue) : phrase_queue[k].src = src

\* C29: speak_async returns to a confirmation task only when the phrase it
\* queued is no longer waiting in the queue or being spoken
C29_SpeakAsyncWaitsForItsPhrase ==
    [][ \A i \in ConfirmSlots :
          /\ (ctask[i].pc = "prompt_wait" /\ ctask'[i].pc = "prompt_ready")
                => ~Unspoken("prompt")'
          /\ (ctask[i].pc = "content_wait" /\ ctask'[i].pc = "content_ready")
                => ~Unspoken("content")' ]_vars

\* C30: a barge-in leads to state Listening: the interrupted turn goes back
\* to Idle and a listening session starts from there
C30_BargeInLeadsToListening == barge_in ~> (state = "Listening")

\* C31: the handle of the generation in flight is present only while the
\* state is Thinking or Speaking: in Idle and Listening it is None
C31_HandleOnlyWhileGenerating ==
    state \in {"Idle", "Listening"} => current_brain_task = None

\* _stream_brain_to_tts takes a chunk of the stream; with the last one the
\* stream is complete (no step of the worker, of a trigger handler or of a
\* confirmation task)
StreamStep ==
    /\ turnPc = "brain"
    /\ current_brain_task = "pending"
    /\ current_brain_task' \in {"pending", "finished"}
    /\ <<buffer, phrase_queue, current_brain_task>>' # <<buffer, phrase_queue, current_brain_task>>
    /\ barge_in' = barge_in
    /\ speaking' = speaking
    /\ scheduled' = scheduled
    /\ ctask' = ctask

TickWithoutPut ==
    /\ autoPc = "tick"
    /\ autoPc' # "tick"
    /\ suggestion_queue' = suggestion_queue

\* C33: a tick that puts no suggestion on the queue leaves last_emit unchanged
C33_LastEmitOnlyOnPut == [][ TickWithoutPut => last_emit' = last_emit ]_vars

\* the loop takes a block from the capture queue and goes on to its end
FrameEndsLoop == loopPc = "running" /\ audio_queue' < audio_queue /\ loopPc' = "final"

\* C34: speech_ms and silence_ms are never both above zero, the loop enters
\* the utterance only with speech_ms at the trigger length or above, and a
\* block ends the loop only as the end of an utterance (in the utterance, with
\* silence_ms at the release length or above) or by the overall timeout
C34_CountersAndUtterance ==
    /\ [](speech_ms = 0 \/ silence_ms = 0)
    /\ [][ (~in_speech /\ in_speech') => speech_ms' >= vad_trigger_ms ]_vars
    /\ [][ FrameEndsLoop
           => \/ in_speech /\ speech_ms' = 0 /\ silence_ms' >= vad_release_ms
              \/ since_start' > overall_timeout_ms ]_vars

\* an utterance has ended: silence after the trigger was reached
C34_Witness ==
    /\ loopPc = "final"
    /\ use_vad
    /\ in_speech
    /\ speech_ms = 0
    /\ silence_ms >= vad_release_ms
    /\ since_start <= overall_timeout_ms

\* C35: with the detector on, the samples classified for a block are samples
\* of that block: no samples of earlier blocks are waiting in vad_buffer when
\* the block is taken from the capture queue
C35_ClassifiedFromSameBlock ==
    [][ FrameClassified => vad_buffer = 0 ]_vars

\* task i is in a confirmation round (timer, prompt, response listen or
\* delivery) and has not been cancelled
InRound(i) == ctask[i].pc \notin {"free", "unused"} /\ ~ctask[i].cancel

\* C36: at most one confirmation round is in progress, and _batching_task
\* refers to it
C36_OneConfirmationRound ==
    \A i \in ConfirmSlots :
        InRound(i) => /\ batching_task = i
                      /\ \A j \in ConfirmSlots : InRound(j) => j = i

\* the response listen of task i was cancelled by a clear_pending (the listen
\* had started before the call), the turn's listen started after that call is
\* running, and the cancelled listen takes a step of its handler
CancelledListenActs(i) ==
    /\ ctask[i].cancel
    /\ ctask[i].pc \in {"listen", "listen_cancelled"}
    /\ listen[Foreground].st = "running"
    /\ ctask'[i] # ctask[i]

\* C37: a cancelled listen does not touch the flags a listen started after it
\* runs on: the stop flag stays clear and is_listening stays set
C37_CancelSparesLaterListen ==
    [][ \A i \in ConfirmSlots :
            CancelledListenActs(i) => /\ stop_event' = stop_event
                                      /\ is_listening' = is_listening ]_vars

\* C38: the suggestion the consumer has taken from the autonomy queue is the
\* one add_suggestion appends to the pending list when the consumer resumes
C38_TakenSuggestionIsAdded ==
    [][ (consPc = "got" /\ consPc' # "got")
        => pending_suggestions' = Append(pending_suggestions, consItem) ]_vars

\* task i is a batch timer in its asyncio.sleep that has not been cancelled
TimerOutstanding(i) == ctask[i].pc = "sleep" /\ ~ctask[i].cancel

\* C39: while the pending list is non-empty the timer _batching_task refers to
\* is outstanding, and a non-empty pending list is emptied in the end (by the
\* timer, which batches or discards it, or by clear_pending)
C39_PendingHasTimer ==
    /\ [](pending_suggestions # <<>>
          => batching_task \in ConfirmSlots /\ TimerOutstanding(batching_task))
    /\ (pending_suggestions # <<>>) ~> (pending_suggestions = <<>>)

\* a second suggestion has joined the batch of a running timer, while an
\* earlier round is still in its dialogue
C39_Witness ==
    /\ Len(pending_suggestions) = 2
    /\ TimerOutstanding(batching_task)
    /\ \E j \in ConfirmSlots : ctask[j].pc \in {"prompt_wait", "prompt_ready", "listen"}

\* C40: the characters of the phrases queued by add_to_buffer and flush_buffer
\* since the last stop, followed by those of the buffer, are the characters of
\* the texts passed to add_to_buffer since then, in their order (blanks and
\* the characters removed by the cleaning aside)
C40_ChunkerKeepsText ==
    queued \o Letters(buffer) = given

\* tokens have been passed; a phrase has been queued and taken by the
\* worker, and text waits in the buffer
C40_Witness ==
    /\ Len(given) >= 3
    /\ queued # <<>>
    /\ Len(Letters(Texts(phrase_queue))) < Len(queued)
    /\ Letters(buffer) # <<>>

====
